---- MODULE Spec2Model ----
(***************************************************************************)
(* Model of the diff / response engine of ai-pr-reviewer (src/review.ts    *)
(* and its duplicates): parseReview, parsePatch, the request packing of    *)
(* doReview, getHighestReviewedCommitId, the run of codeReview with its   *)
(* tasks under the two p-limit instances, splitPatch with the loop that    *)
(* builds the patches of a file, doReview of one file from the packing to  *)
(* the comment buffer, and the review per hunk of SimpleReview.            *)
(*                                                                         *)
(* Text is modelled as sequences of lines, a line as a sequence of tokens. *)
(* A token is a string: " " (one whitespace character), "x" (a run of      *)
(* ordinary text), "-", "+", ":", a decimal number ("0", "1", ...), or a   *)
(* fence: "[fence]" stands for three backquotes, "[fence]suggestion" and   *)
(* "[fence]diff" for the labelled fences that open a code block.           *)
(***************************************************************************)
EXTENDS Integers, Sequences, FiniteSets, TLC

\* ------------------------------------------------------------------ bounds
\* lines of a model response
MaxLines == 3
\* highest new-file line number a hunk of the reviewed file covers
MaxLine == 4
\* lines of a hunk body
MaxBody == 7
\* highest first line of a hunk
MaxStart == 2
\* patches of one file handed to doReview
MaxUnits == 3
\* highest token count of a patch, of a comment chain and of the bare prompt
MaxCost == 2
\* highest request-token limit
MaxBudget == 5
\* commits of the pull-request branch
MaxCommits == 3
\* files of the pull request
MaxFiles == 2
\* highest value of options.githubConcurrencyLimit and openaiConcurrencyLimit
MaxLimit == 2
\* highest value of options.maxFiles
MaxCap == 1

VARIABLES
    response,   \* parseReview: the model's response, a sequence of lines
    patches,    \* parseReview: the known units, <<startLine, endLine>> each
    reviews,    \* parseReview: the result
    parsePc,    \* parseReview: "idle" | "start" | "done"
    patch,      \* parsePatch: the text of one hunk, a sequence of lines
    hunks,      \* parsePatch: the result, oldHunk and newHunk
    annotatePc, \* parsePatch: "idle" | "start" | "done" | "null"
    requestTokens,  \* doReview: options.heavyTokenLimits.requestTokens
    promptTokens,   \* doReview: getTokenCount of the prompt without patches
    patchTokens,    \* doReview: getTokenCount(patch) of each patch of the file
    chainFetched,   \* doReview: what getCommentChainsWithinRange gave, per patch
    tokens,         \* doReview: the running total
    patchesToPack,  \* doReview
    patchesPacked,  \* doReview
    insPatches,     \* doReview: ins.patches, a sequence of sections
    reviewPc,       \* doReview: "idle" | "count" | "pack" | "review" | "skipped"
    allCommitIds,            \* commenter.getAllCommitIds(): the branch commits, oldest first
    existingCommitIdsBlock,  \* the block of the summary comment: "" or the ids it holds
    headSha,                 \* pullRequest.head.sha
    baseSha,                 \* pullRequest.base.sha
    highestReviewedCommitId, \* the base of the incremental diff
    basePc,                  \* getHighestReviewedCommitId: "idle" | "start" | "done"
    options,            \* codeReview: the options of the run
    incrementalFiles,   \* incrementalDiff.data.files: the filenames, or missing
    targetBranchFiles,  \* targetBranchDiff.data.files: the filenames in order, or missing
    commits,            \* incrementalDiff.data.commits.length
    runPc,              \* codeReview: the await it stands at, "done" or "aborted"
    files,              \* the files of both diffs
    filterSelectedFiles,
    contentTask,        \* per file: the task under githubConcurrencyLimit
    fileContent,        \* per file: what getContent gave
    hasPatches,         \* per file: patches.length > 0
    filesAndChanges,
    summaryTask,        \* per file: the doSummary task under openaiConcurrencyLimit
    summaryResp,        \* per file: the response of lightBot.chat
    skippedFiles,
    summaries,          \* the non-null results of doSummary: <<filename, needsReview>>
    rawSummary,         \* inputs.rawSummary
    batchStart,         \* the i of the loop over the batches of summaries
    filesAndChangesReview,
    reviewsSkipped,
    reviewsFailed,
    reviewTask,         \* per file: the doReview task under openaiConcurrencyLimit
    commentChains,      \* per file: what getCommentChainsWithinRange gave
    reviewResp,         \* per file: the response of heavyBot.chat
    buffered,           \* the comments given to commenter.bufferReviewComment
    submitted,          \* calls of commenter.submitReview
    posted,             \* calls of commenter.comment with SUMMARIZE_TAG
    modelCalled,        \* lightBot.chat or heavyBot.chat was called
    summarizeComment,   \* the text that codeReview builds for the summary comment
    summaryComment,     \* the comment with SUMMARIZE_TAG on the pull request
    filePatch,          \* file.patch of one file of the diff, or null
    hunkTexts,          \* what splitPatch(file.patch) returned
    patchUnits,         \* the patches of the file: start line, end line, hunks
    splitPc,            \* the loop over the hunks: "idle" | "start" | "split" | "built"
    filename,           \* SimpleReview.doReview: the file under review
    simplePatches,      \* SimpleReview.doReview: the patches of the file
    hunkIndex,          \* the patch the loop of doReview stands at
    simplePc,           \* SimpleReview.review: the await it stands at, or "done"
    triageResponse,     \* what lightBot.chat gave in checkIsNeedToReview
    isNeedToReview,
    reviewResponse,     \* what heavyBot.chat gave in executeReview
    reviewResult,       \* reviews[0]: a sequence of one review, empty for undefined
    validityResponse,   \* what lightBot.chat gave in checkReviewValidity
    isReviewValid

parseVars == <<response, patches, reviews, parsePc>>

annotateVars == <<patch, hunks, annotatePc>>

splitVars == <<filePatch, hunkTexts, patchUnits, splitPc>>

simpleVars == <<filename, simplePatches, hunkIndex, simplePc, triageResponse,
                isNeedToReview, reviewResponse, reviewResult, validityResponse,
                isReviewValid>>

packVars == <<requestTokens, promptTokens, patchTokens, chainFetched, tokens,
              patchesToPack, patchesPacked, insPatches, reviewPc>>

baseVars == <<allCommitIds, existingCommitIdsBlock, headSha, baseSha,
              highestReviewedCommitId, basePc>>

runInputs == <<options, incrementalFiles, targetBranchFiles, commits>>

phase0Vars == <<files, filterSelectedFiles, contentTask, fileContent, hasPatches,
                filesAndChanges>>

phase1Vars == <<summaryTask, summaryResp, skippedFiles, summaries, rawSummary, batchStart>>

phase2Vars == <<filesAndChangesReview, reviewsSkipped, reviewsFailed, reviewTask,
                commentChains, reviewResp, buffered, submitted, posted>>

commentVars == <<summarizeComment, summaryComment>>

runVars == <<runInputs, runPc, phase0Vars, phase1Vars, phase2Vars, modelCalled,
             commentVars>>

orchVars == <<baseVars, runVars>>

vars == <<parseVars, annotateVars, splitVars, simpleVars, packVars, orchVars>>

\* the state of a part of the program that a specification does not run
ParseIdle ==
    /\ response = << <<>> >>
    /\ patches = <<>>
    /\ reviews = <<>>
    /\ parsePc = "idle"

AnnotateIdle ==
    /\ patch = <<>>
    /\ hunks = [oldHunk |-> <<>>, newHunk |-> <<>>]
    /\ annotatePc = "idle"

SplitIdle ==
    /\ filePatch = [isNull |-> TRUE, text |-> << <<>> >>]
    /\ hunkTexts = <<>>
    /\ patchUnits = <<>>
    /\ splitPc = "idle"

\* no call of a bot was made yet
NoCall == [kind |-> "none", text |-> <<>>]

\* the locals of SimpleReview.review before its first call
ReviewLocalsFresh ==
    /\ triageResponse = NoCall
    /\ isNeedToReview = FALSE
    /\ reviewResponse = NoCall
    /\ reviewResult = <<>>
    /\ validityResponse = NoCall
    /\ isReviewValid = FALSE

SimpleIdle ==
    /\ filename = 0
    /\ simplePatches = <<>>
    /\ hunkIndex = 0
    /\ simplePc = "idle"
    /\ ReviewLocalsFresh

BaseIdle ==
    /\ allCommitIds = <<>>
    /\ existingCommitIdsBlock = [text |-> "", ids |-> {}]
    /\ headSha = ""
    /\ baseSha = ""
    /\ highestReviewedCommitId = ""
    /\ basePc = "idle"

\* the filenames of a run
Names == 1..MaxFiles

\* no response of heavyBot.chat yet
NoResponse == [kind |-> "none", text |-> <<>>]

RunIdle ==
    /\ options = [maxFiles |-> 0]
    /\ incrementalFiles = [missing |-> TRUE, names |-> {}]
    /\ targetBranchFiles = [missing |-> TRUE, names |-> <<>>]
    /\ commits = 0
    /\ runPc = "idle"
    /\ files = <<>>
    /\ filterSelectedFiles = <<>>
    /\ contentTask = [f \in Names |-> "none"]
    /\ fileContent = [f \in Names |-> "none"]
    /\ hasPatches = [f \in Names |-> FALSE]
    /\ filesAndChanges = <<>>
    /\ summaryTask = [f \in Names |-> "none"]
    /\ summaryResp = [f \in Names |-> "none"]
    /\ skippedFiles = <<>>
    /\ summaries = <<>>
    /\ rawSummary = <<>>
    /\ batchStart = 0
    /\ filesAndChangesReview = <<>>
    /\ reviewsSkipped = <<>>
    /\ reviewsFailed = <<>>
    /\ reviewTask = [f \in Names |-> "none"]
    /\ commentChains = [f \in Names |-> "none"]
    /\ reviewResp = [f \in Names |-> NoResponse]
    /\ buffered = <<>>
    /\ submitted = 0
    /\ posted = 0
    /\ modelCalled = FALSE
    /\ summarizeComment = [summary |-> "", block |-> [text |-> "", ids |-> {}]]
    /\ summaryComment = [summary |-> "", block |-> [text |-> "", ids |-> {}]]

OrchIdle == BaseIdle /\ RunIdle

PackIdle ==
    /\ requestTokens = 0
    /\ promptTokens = 0
    /\ patchTokens = <<>>
    /\ chainFetched = <<>>
    /\ tokens = 0
    /\ patchesToPack = 0
    /\ patchesPacked = 0
    /\ insPatches = <<>>
    /\ reviewPc = "idle"

\* ------------------------------------------------------------ numbers as text
\* The decimal numerals; Digits[n + 1] is the text of n.
Digits == <<"0", "1", "2", "3", "4", "5", "6", "7", "8", "9", "10", "11",
            "12", "13", "14", "15", "16", "17", "18", "19", "20">>

\* /\d+/ on one token
IsNum(tok) == \E n \in DOMAIN Digits : Digits[n] = tok

\* parseInt(tok, 10)
parseInt(tok) == (CHOOSE n \in DOMAIN Digits : Digits[n] = tok) - 1

\* template literal of a number
NumStr(n) == Digits[n + 1]

\* ------------------------------------------------------------ string helpers
RECURSIVE TrimStart(_)
\* String.prototype.trimStart on one line
TrimStart(line) ==
    IF line # <<>> /\ Head(line) = " " THEN TrimStart(Tail(line)) ELSE line

RECURSIVE TrimEnd(_)
\* String.prototype.trimEnd on one line
TrimEnd(line) ==
    IF line # <<>> /\ line[Len(line)] = " "
    THEN TrimEnd(SubSeq(line, 1, Len(line) - 1))
    ELSE line

\* line.trim()
TrimLine(line) == TrimEnd(TrimStart(line))

\* a line of whitespace only (or empty)
IsBlank(line) == \A i \in 1..Len(line) : line[i] = " "

RECURSIVE DropBlankHead(_)
DropBlankHead(lines) ==
    IF lines # <<>> /\ IsBlank(Head(lines)) THEN DropBlankHead(Tail(lines)) ELSE lines

RECURSIVE DropBlankLast(_)
DropBlankLast(lines) ==
    IF lines # <<>> /\ IsBlank(lines[Len(lines)])
    THEN DropBlankLast(SubSeq(lines, 1, Len(lines) - 1))
    ELSE lines

\* response.trim() followed by split('\n'): whitespace, newlines included, is
\* removed from both ends of the text; the empty text splits into one empty line.
TrimResponse(lines) ==
    LET core == DropBlankLast(DropBlankHead(lines))
        n == Len(core)
    IN  IF n = 0 THEN << <<>> >>
        ELSE [i \in 1..n |->
                LET a == IF i = 1 THEN TrimStart(core[i]) ELSE core[i]
                IN  IF i = n THEN TrimEnd(a) ELSE a]

\* ------------------------------------------------------- _sanitizeCodeBlock
\* Every fence holds the three backquotes, so each of them ends a code block.
FenceToks == {"[fence]", "[fence]suggestion", "[fence]diff"}

HasTok(line, toks) == \E k \in 1..Len(line) : line[k] \in toks

\* String.indexOf over lines: the first line at or after from that holds a
\* token of toks; 0 when there is none (the code's -1).
IndexOfLine(lines, toks, from) ==
    LET hits == {i \in from..Len(lines) : HasTok(lines[i], toks)}
    IN  IF hits = {} THEN 0 ELSE CHOOSE i \in hits : \A j \in hits : i <= j

RECURSIVE LeadingSpaces(_)
LeadingSpaces(line) ==
    IF line # <<>> /\ Head(line) = " " THEN 1 + LeadingSpaces(Tail(line)) ELSE 0

\* codeBlock.replace(/^ *(\d+): /gm, '') on one line of the block
stripLineNumber(line) ==
    LET k == LeadingSpaces(line)
    IN  IF /\ Len(line) >= k + 3
           /\ IsNum(line[k + 1])
           /\ line[k + 2] = ":"
           /\ line[k + 3] = " "
        THEN SubSeq(line, k + 4, Len(line))
        ELSE line

RECURSIVE sanitizeFrom(_, _, _)
\* The while loop of _sanitizeCodeBlock, fences standing on lines of their own:
\* the lines strictly between a start fence and the next fence lose their
\* line-number prefix; a block that is never closed is left as it is.
sanitizeFrom(lines, startTok, from) ==
    LET codeBlockStartIndex == IndexOfLine(lines, {startTok}, from)
        codeBlockEndIndex == IndexOfLine(lines, FenceToks, codeBlockStartIndex + 1)
    IN  IF codeBlockStartIndex = 0 THEN lines
        ELSE IF codeBlockEndIndex = 0 THEN lines
        ELSE sanitizeFrom(
                [k \in 1..Len(lines) |->
                    IF codeBlockStartIndex < k /\ k < codeBlockEndIndex
                    THEN stripLineNumber(lines[k])
                    ELSE lines[k]],
                startTok, codeBlockEndIndex + 1)

sanitizeCodeBlock(lines, startTok) == sanitizeFrom(lines, startTok, 1)

sanitizeResponse(lines) ==
    sanitizeCodeBlock(sanitizeCodeBlock(lines, "[fence]suggestion"), "[fence]diff")

\* ------------------------------------------------------------- parseReview
\* null of currentStartLine / currentEndLine, and the code's own -1 of
\* bestPatchStartLine / bestPatchEndLine; parseInt of /\d+/ is never negative.
Null == -1

Max(a, b) == IF a >= b THEN a ELSE b

Min(a, b) == IF a <= b THEN a ELSE b

\* /(?:^|\s)(\d+)-(\d+):\s*$/ with the first number at token i
RangeMatchAt(line, i) ==
    /\ i + 3 <= Len(line)
    /\ IsNum(line[i])
    /\ line[i + 1] = "-"
    /\ IsNum(line[i + 2])
    /\ line[i + 3] = ":"
    /\ \A j \in (i + 4)..Len(line) : line[j] = " "
    /\ (i = 1 \/ line[i - 1] = " ")

\* line.match(lineNumberRangeRegex): <<>> for null, else <<start, end>> parsed
lineNumberRangeMatch(line) ==
    IF \E i \in 1..Len(line) : RangeMatchAt(line, i)
    THEN LET i == CHOOSE i \in 1..Len(line) : RangeMatchAt(line, i)
         IN  <<parseInt(line[i]), parseInt(line[i + 2])>>
    ELSE <<>>

commentSeparator == <<"-", "-", "-">>

GreatestOverlapNote ==
    "> Note: This review was outside of the patch, so it was mapped to the patch with the greatest overlap. Original lines ["

NoOverlapNote ==
    "> Note: This review was outside of the patch, but no patch was found that overlapped with it. Original lines ["

\* note + startLine + '-' + endLine + ']' + two newlines + comment: the note line, an empty
\* line, then the comment
WithNote(note, review) ==
    << <<note, NumStr(review.startLine), "-", NumStr(review.endLine), "]">>, <<>> >>
        \o review.comment

\* mutant: the + 1 of the interval length forgotten
intersectionLength_NoPlusOne(review, p) ==
    Max(0, Min(review.endLine, p[2]) - Max(review.startLine, p[1]))

intersectionLength(review, p) ==
    Max(0, Min(review.endLine, p[2]) - Max(review.startLine, p[1]) + 1)

RECURSIVE bestPatchLoop_LastOnTie(_, _, _, _)
\* mutant: >= for >, so that a later patch wins a tie
bestPatchLoop_LastOnTie(review, pats, k, acc) ==
    IF k > Len(pats) THEN acc
    ELSE LET len == intersectionLength(review, pats[k])
             next == IF len >= acc.maxIntersection /\ len > 0
                     THEN [maxIntersection |-> len,
                           bestPatchStartLine |-> pats[k][1],
                           bestPatchEndLine |-> pats[k][2],
                           withinPatch |->
                               (len = review.endLine - review.startLine + 1)]
                     ELSE acc
         IN  IF next.withinPatch THEN next
             ELSE bestPatchLoop_LastOnTie(review, pats, k + 1, next)

RECURSIVE bestPatchLoop(_, _, _, _)
\* for (const [startLine, endLine] of patches) { ... if (withinPatch) break }
bestPatchLoop(review, pats, k, acc) ==
    IF k > Len(pats) THEN acc
    ELSE LET len == intersectionLength(review, pats[k])
             next == IF len > acc.maxIntersection
                     THEN [maxIntersection |-> len,
                           bestPatchStartLine |-> pats[k][1],
                           bestPatchEndLine |-> pats[k][2],
                           withinPatch |->
                               (len = review.endLine - review.startLine + 1)]
                     ELSE acc
         IN  IF next.withinPatch THEN next
             ELSE bestPatchLoop(review, pats, k + 1, next)

\* mutant: the note is added but the range is not reassigned
mapReview_KeepRange(review, pats) ==
    LET b == bestPatchLoop(review, pats, 1,
                 [withinPatch |-> FALSE, bestPatchStartLine |-> -1,
                  bestPatchEndLine |-> -1, maxIntersection |-> 0])
    IN  IF b.withinPatch THEN review
        ELSE IF b.bestPatchStartLine # -1 /\ b.bestPatchEndLine # -1
        THEN [review EXCEPT !.comment = WithNote(GreatestOverlapNote, review)]
        ELSE [review EXCEPT !.comment = WithNote(NoOverlapNote, review)]

\* mutant: the fallback is the last patch, not patches[0]
mapReview_LastPatch(review, pats) ==
    LET b == bestPatchLoop(review, pats, 1,
                 [withinPatch |-> FALSE, bestPatchStartLine |-> -1,
                  bestPatchEndLine |-> -1, maxIntersection |-> 0])
    IN  IF b.withinPatch THEN review
        ELSE IF b.bestPatchStartLine # -1 /\ b.bestPatchEndLine # -1
        THEN [startLine |-> b.bestPatchStartLine,
              endLine |-> b.bestPatchEndLine,
              comment |-> WithNote(GreatestOverlapNote, review)]
        ELSE [startLine |-> pats[Len(pats)][1],
              endLine |-> pats[Len(pats)][2],
              comment |-> WithNote(NoOverlapNote, review)]

\* mutant: a review that overlaps no patch keeps its range
mapReview_NoOverlapKept(review, pats) ==
    LET b == bestPatchLoop(review, pats, 1,
                 [withinPatch |-> FALSE, bestPatchStartLine |-> -1,
                  bestPatchEndLine |-> -1, maxIntersection |-> 0])
    IN  IF b.withinPatch THEN review
        ELSE IF b.bestPatchStartLine # -1 /\ b.bestPatchEndLine # -1
        THEN [startLine |-> b.bestPatchStartLine,
              endLine |-> b.bestPatchEndLine,
              comment |-> WithNote(GreatestOverlapNote, review)]
        ELSE [review EXCEPT !.comment = WithNote(NoOverlapNote, review)]

\* the body of storeReview for one review: keep it, or map it onto a patch
mapReview(review, pats) ==
    LET b == bestPatchLoop(review, pats, 1,
                 [withinPatch |-> FALSE, bestPatchStartLine |-> -1,
                  bestPatchEndLine |-> -1, maxIntersection |-> 0])
    IN  IF b.withinPatch THEN review
        ELSE IF b.bestPatchStartLine # -1 /\ b.bestPatchEndLine # -1
        THEN [startLine |-> b.bestPatchStartLine,
              endLine |-> b.bestPatchEndLine,
              comment |-> WithNote(GreatestOverlapNote, review)]
        ELSE [startLine |-> pats[1][1],
              endLine |-> pats[1][2],
              comment |-> WithNote(NoOverlapNote, review)]

\* storeReview(): st holds currentStartLine, currentEndLine, currentComment
\* and reviews
storeReview(st, pats) ==
    IF st.currentStartLine # Null /\ st.currentEndLine # Null
    THEN [st EXCEPT !.reviews =
            Append(@, mapReview([startLine |-> st.currentStartLine,
                                 endLine |-> st.currentEndLine,
                                 comment |-> st.currentComment], pats))]
    ELSE st

\* mutant: a range header opens a comment without storing the one in progress
scanLine_NoFlushOnHeader(st, line, pats) ==
    LET m == lineNumberRangeMatch(line)
    IN  IF m # <<>>
        THEN [st EXCEPT !.currentStartLine = m[1],
                        !.currentEndLine = m[2],
                        !.currentComment = <<>>]
        ELSE IF TrimLine(line) = commentSeparator
        THEN [storeReview(st, pats) EXCEPT !.currentStartLine = Null,
                                           !.currentEndLine = Null,
                                           !.currentComment = <<>>]
        ELSE IF st.currentStartLine # Null /\ st.currentEndLine # Null
        THEN [st EXCEPT !.currentComment = Append(@, line)]
        ELSE st

\* one iteration of for (const line of lines)
scanLine(st, line, pats) ==
    LET m == lineNumberRangeMatch(line)
    IN  IF m # <<>>
        THEN [storeReview(st, pats) EXCEPT !.currentStartLine = m[1],
                                           !.currentEndLine = m[2],
                                           !.currentComment = <<>>]
        ELSE IF TrimLine(line) = commentSeparator
        THEN [storeReview(st, pats) EXCEPT !.currentStartLine = Null,
                                           !.currentEndLine = Null,
                                           !.currentComment = <<>>]
        ELSE IF st.currentStartLine # Null /\ st.currentEndLine # Null
        THEN [st EXCEPT !.currentComment = Append(@, line)]
        ELSE st

RECURSIVE scanLines(_, _, _, _)
scanLines(st, lines, k, pats) ==
    IF k > Len(lines) THEN st
    ELSE scanLines(scanLine(st, lines[k], pats), lines, k + 1, pats)

\* the text parseReview scans: _sanitizeResponse(response.trim()).split('\n')
preprocess(resp) == sanitizeResponse(TrimResponse(resp))

parseReview(resp, pats) ==
    storeReview(
        scanLines([currentStartLine |-> Null, currentEndLine |-> Null,
                   currentComment |-> <<>>, reviews |-> <<>>],
                  preprocess(resp), 1, pats),
        pats).reviews

\* ------------------------------------------------------ inputs of parseReview
\* The lines a response is made of: an empty line, a numbered line of text, a
\* plain range header, an inverted range header between whitespace, a range
\* header after text, a separator, and the fences of a suggestion block.
RespLines ==
    { <<>>,
      <<"1", ":", " ", "x">>,
      <<"1", "-", "4", ":">>,
      <<" ", "4", "-", "2", ":", " ">>,
      <<"x", " ", "3", "-", "3", ":">>,
      <<"-", "-", "-">>,
      <<"[fence]suggestion">>,
      <<"[fence]">> }

Responses == UNION {[1..n -> RespLines] : n \in 1..MaxLines}

RECURSIVE SortedSeq(_)
SortedSeq(S) ==
    IF S = {} THEN <<>>
    ELSE LET m == CHOOSE x \in S : \A y \in S : x <= y
         IN  <<m>> \o SortedSeq(S \ {m})

\* The hunks of a file whose changed new-file lines are S: one unit per
\* maximal run of S, in file order (hunks of a unified diff are disjoint).
UnitsOf(S) ==
    LET starts == SortedSeq({n \in S : n - 1 \notin S})
    IN  [i \in 1..Len(starts) |->
            <<starts[i],
              CHOOSE m \in S : /\ m >= starts[i]
                               /\ starts[i]..m \subseteq S
                               /\ m + 1 \notin S>>]

\* The unit lists of a file: those of every non-empty set of changed lines,
\* and the single hunk +0,0 of a file emptied by the change (start 0, end -1).
PatchLists ==
    {UnitsOf(S) : S \in (SUBSET (1..MaxLine)) \ {{}}} \cup {<< <<0, -1>> >>}

\* ------------------------------------------------------------ specification
InitParse ==
    /\ response \in Responses
    /\ patches \in PatchLists
    /\ reviews = <<>>
    /\ parsePc = "start"
    /\ AnnotateIdle
    /\ SplitIdle
    /\ SimpleIdle
    /\ PackIdle
    /\ OrchIdle

\* parseReview(response, patches, options.debug)
ParseReviewCall ==
    /\ parsePc = "start"
    /\ reviews' = parseReview(response, patches)
    /\ parsePc' = "done"
    /\ UNCHANGED <<response, patches, annotateVars, splitVars, simpleVars, packVars, orchVars>>

NextParse == ParseReviewCall

SpecParse == InitParse /\ [][NextParse]_vars

\* ----------------------------------------------- patchStartEndLine, parsePatch
skipStart == 3

skipEnd == 3

\* the header line "@@ -a,b +c,d @@"
HunkHeader(a, b, c, d) ==
    <<"@@", " ", "-", NumStr(a), ",", NumStr(b), " ",
      "+", NumStr(c), ",", NumStr(d), " ", "@@">>

\* /(^@@ -(\d+),(\d+) \+(\d+),(\d+) @@)/gm at the start of one line
HeaderMatch(line) ==
    /\ Len(line) >= 13
    /\ line[1] = "@@" /\ line[2] = " " /\ line[3] = "-"
    /\ IsNum(line[4]) /\ line[5] = "," /\ IsNum(line[6])
    /\ line[7] = " " /\ line[8] = "+"
    /\ IsNum(line[9]) /\ line[10] = "," /\ IsNum(line[11])
    /\ line[12] = " " /\ line[13] = "@@"

\* pattern.exec(patch) != null
hasHeader(p) == \E i \in 1..Len(p) : HeaderMatch(p[i])

\* patchStartEndLine(patch), for a patch with a header line
patchStartEndLine(p) ==
    LET i == CHOOSE i \in 1..Len(p) :
                HeaderMatch(p[i]) /\ \A j \in 1..(i - 1) : ~HeaderMatch(p[j])
        oldBegin == parseInt(p[i][4])
        oldDiff == parseInt(p[i][6])
        newBegin == parseInt(p[i][9])
        newDiff == parseInt(p[i][11])
    IN  [oldHunk |-> [startLine |-> oldBegin, endLine |-> oldBegin + oldDiff - 1],
         newHunk |-> [startLine |-> newBegin, endLine |-> newBegin + newDiff - 1]]

\* line.startsWith(c)
startsWith(line, c) == line # <<>> /\ Head(line) = c

\* patch.split('\n').slice(1), the last line popped when it is empty
bodyLines(p) ==
    LET lines == Tail(p)
    IN  IF lines # <<>> /\ lines[Len(lines)] = <<>>
        THEN SubSeq(lines, 1, Len(lines) - 1)
        ELSE lines

\* the line-number prefix of newHunk
Numbered(n, text) == <<NumStr(n), ":", " ">> \o text

RECURSIVE annotateLines_OldDropsContext(_, _, _, _)
\* mutant: context lines are not copied to the old hunk
annotateLines_OldDropsContext(lines, removalOnly, currentLine, acc) ==
    IF currentLine > Len(lines) THEN acc
    ELSE LET line == lines[currentLine]
         IN  annotateLines_OldDropsContext(lines, removalOnly, currentLine + 1,
                IF startsWith(line, "-")
                THEN [acc EXCEPT !.oldHunkLines = Append(@, Tail(line))]
                ELSE IF startsWith(line, "+")
                THEN [acc EXCEPT
                        !.newHunkLines = Append(@, Numbered(acc.newLine, Tail(line))),
                        !.newLine = @ + 1]
                ELSE [acc EXCEPT
                        !.newHunkLines =
                            Append(@, IF \/ removalOnly
                                         \/ /\ currentLine > skipStart
                                            /\ currentLine <= Len(lines) - skipEnd
                                      THEN Numbered(acc.newLine, line)
                                      ELSE line),
                        !.newLine = @ + 1])

RECURSIVE annotateLines_WindowNotCounted(_, _, _, _)
\* mutant: a context line inside the skip window does not advance newLine
annotateLines_WindowNotCounted(lines, removalOnly, currentLine, acc) ==
    IF currentLine > Len(lines) THEN acc
    ELSE LET line == lines[currentLine]
             numbered == \/ removalOnly
                         \/ /\ currentLine > skipStart
                            /\ currentLine <= Len(lines) - skipEnd
         IN  annotateLines_WindowNotCounted(lines, removalOnly, currentLine + 1,
                IF startsWith(line, "-")
                THEN [acc EXCEPT !.oldHunkLines = Append(@, Tail(line))]
                ELSE IF startsWith(line, "+")
                THEN [acc EXCEPT
                        !.newHunkLines = Append(@, Numbered(acc.newLine, Tail(line))),
                        !.newLine = @ + 1]
                ELSE [acc EXCEPT
                        !.oldHunkLines = Append(@, line),
                        !.newHunkLines =
                            Append(@, IF numbered THEN Numbered(acc.newLine, line)
                                      ELSE line),
                        !.newLine = IF numbered THEN @ + 1 ELSE @])

RECURSIVE annotateLines_WindowOffByOne(_, _, _, _)
\* mutant: >= for > in the test of the skip window
annotateLines_WindowOffByOne(lines, removalOnly, currentLine, acc) ==
    IF currentLine > Len(lines) THEN acc
    ELSE LET line == lines[currentLine]
         IN  annotateLines_WindowOffByOne(lines, removalOnly, currentLine + 1,
                IF startsWith(line, "-")
                THEN [acc EXCEPT !.oldHunkLines = Append(@, Tail(line))]
                ELSE IF startsWith(line, "+")
                THEN [acc EXCEPT
                        !.newHunkLines = Append(@, Numbered(acc.newLine, Tail(line))),
                        !.newLine = @ + 1]
                ELSE [acc EXCEPT
                        !.oldHunkLines = Append(@, line),
                        !.newHunkLines =
                            Append(@, IF \/ removalOnly
                                         \/ /\ currentLine >= skipStart
                                            /\ currentLine <= Len(lines) - skipEnd
                                      THEN Numbered(acc.newLine, line)
                                      ELSE line),
                        !.newLine = @ + 1])

RECURSIVE annotateLines(_, _, _, _)
\* for (const line of lines) { currentLine++ ... }: acc holds newLine,
\* oldHunkLines and newHunkLines
annotateLines(lines, removalOnly, currentLine, acc) ==
    IF currentLine > Len(lines) THEN acc
    ELSE LET line == lines[currentLine]
         IN  annotateLines(lines, removalOnly, currentLine + 1,
                IF startsWith(line, "-")
                THEN [acc EXCEPT !.oldHunkLines = Append(@, Tail(line))]
                ELSE IF startsWith(line, "+")
                THEN [acc EXCEPT
                        !.newHunkLines = Append(@, Numbered(acc.newLine, Tail(line))),
                        !.newLine = @ + 1]
                ELSE [acc EXCEPT
                        !.oldHunkLines = Append(@, line),
                        !.newHunkLines =
                            Append(@, IF \/ removalOnly
                                         \/ /\ currentLine > skipStart
                                            /\ currentLine <= Len(lines) - skipEnd
                                      THEN Numbered(acc.newLine, line)
                                      ELSE line),
                        !.newLine = @ + 1])

\* parsePatch(patch), for a patch with a header line; the joined texts
\* oldHunk and newHunk are kept as sequences of lines
parsePatch(p) ==
    LET hunkInfo == patchStartEndLine(p)
        lines == bodyLines(p)
        removalOnly == ~\E i \in 1..Len(lines) : startsWith(lines[i], "+")
        acc == annotateLines(lines, removalOnly, 1,
                   [newLine |-> hunkInfo.newHunk.startLine,
                    oldHunkLines |-> <<>>,
                    newHunkLines |-> <<>>])
    IN  [oldHunk |-> acc.oldHunkLines, newHunk |-> acc.newHunkLines]

\* -------------------------------------------------------- inputs of parsePatch
\* an added line, a removed line, a context line
DiffLines == { <<"+", "x">>, <<"-", "x">>, <<" ", "x">> }

\* the marker "\ No newline at end of file"
NoNewlineMarker == <<"\\", " ", "x">>

DiffBodies == UNION {[1..n -> DiffLines] : n \in 0..MaxBody}

CountIf(body, c) == Cardinality({i \in 1..Len(body) : Head(body[i]) = c})

\* A hunk as the host emits it: the header counts the old-side and new-side
\* lines of the body; the marker may follow the last line; the text ends
\* with a newline when another hunk follows.
HunkText(start, body, marker, newline) ==
    <<HunkHeader(start, CountIf(body, "-") + CountIf(body, " "),
                 start, CountIf(body, "+") + CountIf(body, " "))>>
        \o body
        \o (IF marker THEN <<NoNewlineMarker>> ELSE <<>>)
        \o (IF newline THEN << <<>> >> ELSE <<>>)

InitAnnotate ==
    /\ \E start \in 1..MaxStart, body \in DiffBodies, marker \in BOOLEAN, newline \in BOOLEAN :
            patch = HunkText(start, body, marker /\ body # <<>>, newline)
    /\ hunks = [oldHunk |-> <<>>, newHunk |-> <<>>]
    /\ annotatePc = "start"
    /\ ParseIdle
    /\ SplitIdle
    /\ SimpleIdle
    /\ PackIdle
    /\ OrchIdle

\* const hunks = parsePatch(patch)
ParsePatchCall ==
    /\ annotatePc = "start"
    /\ IF hasHeader(patch)
       THEN hunks' = parsePatch(patch) /\ annotatePc' = "done"
       ELSE hunks' = hunks /\ annotatePc' = "null"
    /\ UNCHANGED <<patch, parseVars, splitVars, simpleVars, packVars, orchVars>>

NextAnnotate == ParsePatchCall

SpecAnnotate == InitAnnotate /\ [][NextAnnotate]_vars

\* --------------------------------------- splitPatch and the patches of a file
\* file.patch: null, or a text kept as the sequence of its lines
NullPatch == [isNull |-> TRUE, text |-> << <<>> >>]

RECURSIVE splitLoop_DropsLast(_, _, _, _)
\* mutant: the text after the last header is not pushed
splitLoop_DropsLast(p, k, last, result) ==
    IF k > Len(p) THEN result
    ELSE IF HeaderMatch(p[k])
    THEN splitLoop_DropsLast(p, k + 1, k,
            IF last = -1 THEN result
            ELSE Append(result, SubSeq(p, last, k - 1) \o << <<>> >>))
    ELSE splitLoop_DropsLast(p, k + 1, last, result)

RECURSIVE splitLoop(_, _, _, _)
\* the loop over the matches of the header pattern, which matches at the
\* start of a line: k is the line pattern.exec looks at, last the line of
\* the previous match. patch.substring(last, match.index) is the lines from
\* last up to the line break before the match, so it ends with an empty line;
\* patch.substring(last) is the rest of the text.
splitLoop(p, k, last, result) ==
    IF k > Len(p)
    THEN IF last # -1 THEN Append(result, SubSeq(p, last, Len(p))) ELSE result
    ELSE IF HeaderMatch(p[k])
    THEN splitLoop(p, k + 1, k,
            IF last = -1 THEN result
            ELSE Append(result, SubSeq(p, last, k - 1) \o << <<>> >>))
    ELSE splitLoop(p, k + 1, last, result)

\* splitPatch(patch)
splitPatch(fp) ==
    IF fp.isNull THEN <<>> ELSE splitLoop(fp.text, 1, -1, <<>>)

RECURSIVE buildPatches(_, _, _)
\* for (const patch of splitPatch(file.patch)): a hunk for which
\* patchStartEndLine or parsePatch gives null is passed over (both give null
\* for the same hunks, those without a header line); the others are pushed
\* with the line range of the new hunk
buildPatches(hs, k, acc) ==
    IF k > Len(hs) THEN acc
    ELSE IF ~hasHeader(hs[k]) THEN buildPatches(hs, k + 1, acc)
    ELSE buildPatches(hs, k + 1,
            Append(acc, [startLine |-> patchStartEndLine(hs[k]).newHunk.startLine,
                         endLine |-> patchStartEndLine(hs[k]).newHunk.endLine,
                         hunks |-> parsePatch(hs[k])]))

\* ---------------------------------------------------- inputs of splitPatch
MaxDiff == 4

\* The lines a diff text is made of: a header of a hunk with added lines, a
\* header of a hunk that only removes (new length 0), a header followed by
\* the heading of the section, a context line that holds the text of a
\* header, an added line, a removed line, an empty line.
PatchTextLines ==
    { HunkHeader(1, 1, 1, 2),
      HunkHeader(3, 1, 2, 0),
      HunkHeader(4, 1, 4, 1) \o <<" ", "x">>,
      <<" ">> \o HunkHeader(1, 1, 1, 1),
      <<"+", "x">>,
      <<"-", "x">>,
      <<>> }

PatchTexts == UNION {[1..n -> PatchTextLines] : n \in 1..MaxDiff}

InitSplit ==
    /\ filePatch \in {NullPatch} \cup {[isNull |-> FALSE, text |-> t] : t \in PatchTexts}
    /\ hunkTexts = <<>>
    /\ patchUnits = <<>>
    /\ splitPc = "start"
    /\ ParseIdle
    /\ AnnotateIdle
    /\ SimpleIdle
    /\ PackIdle
    /\ OrchIdle

\* splitPatch(file.patch) returns
SplitPatchCall ==
    /\ splitPc = "start"
    /\ hunkTexts' = splitPatch(filePatch)
    /\ splitPc' = "split"
    /\ UNCHANGED <<filePatch, patchUnits, parseVars, annotateVars, simpleVars,
                   packVars, orchVars>>

\* the loop over the hunks has built the patches of the file
PatchesBuilt ==
    /\ splitPc = "split"
    /\ patchUnits' = buildPatches(hunkTexts, 1, <<>>)
    /\ splitPc' = "built"
    /\ UNCHANGED <<filePatch, hunkTexts, parseVars, annotateVars, simpleVars,
                   packVars, orchVars>>

NextSplit == SplitPatchCall \/ PatchesBuilt

SpecSplit == InitSplit /\ [][NextSplit]_vars

\* ------------------------------------------------------- doReview: packing
RECURSIVE countLoop_StopsAtLimit(_, _, _, _)
\* mutant: >= for > in the test against the limit
countLoop_StopsAtLimit(costs, limit, k, acc) ==
    IF k > Len(costs) THEN acc
    ELSE IF acc.tokens + costs[k] >= limit THEN acc
    ELSE countLoop_StopsAtLimit(costs, limit, k + 1,
            [tokens |-> acc.tokens + costs[k],
             patchesToPack |-> acc.patchesToPack + 1])

RECURSIVE countLoop(_, _, _, _)
\* the loop that calculates the total patch tokens: acc holds tokens and
\* patchesToPack; it breaks at the first patch that does not fit
countLoop(costs, limit, k, acc) ==
    IF k > Len(costs) THEN acc
    ELSE IF acc.tokens + costs[k] > limit THEN acc
    ELSE countLoop(costs, limit, k + 1,
            [tokens |-> acc.tokens + costs[k],
             patchesToPack |-> acc.patchesToPack + 1])

\* getTokenCount(commentChain) after the fetch: a failed fetch and a fetch
\* that finds no chain both leave commentChain empty
commentChainTokens(fetch) == IF fetch.ok THEN fetch.tokens ELSE 0

\* mutant: the tokens of an included comment chain are not added to the total
packOne_ChainNotCounted(i, fetch, limit, acc) ==
    LET fits == ~(acc.tokens + commentChainTokens(fetch) > limit)
        commentChain == fits /\ commentChainTokens(fetch) > 0
    IN  [tokens |-> acc.tokens,
         insPatches |->
            acc.insPatches
                \o << <<"patch", i>> >>
                \o (IF commentChain THEN << <<"comment_chains", i>> >> ELSE <<>>)
                \o << <<"end_change_section", i>> >>]

\* mutant: the comment chain is included without the test against the limit
packOne_ChainAlwaysIncluded(i, fetch, limit, acc) ==
    LET commentChain == commentChainTokens(fetch) > 0
    IN  [tokens |-> acc.tokens + commentChainTokens(fetch),
         insPatches |->
            acc.insPatches
                \o << <<"patch", i>> >>
                \o (IF commentChain THEN << <<"comment_chains", i>> >> ELSE <<>>)
                \o << <<"end_change_section", i>> >>]

\* mutant: a patch whose comment chain does not fit is left out of the request
packOne_DropsPatch(i, fetch, limit, acc) ==
    LET fits == ~(acc.tokens + commentChainTokens(fetch) > limit)
        commentChain == fits /\ commentChainTokens(fetch) > 0
    IN  IF ~fits THEN acc
        ELSE [tokens |-> acc.tokens + commentChainTokens(fetch),
              insPatches |->
                 acc.insPatches
                     \o << <<"patch", i>> >>
                     \o (IF commentChain THEN << <<"comment_chains", i>> >> ELSE <<>>)
                     \o << <<"end_change_section", i>> >>]

\* one iteration of the packing loop for patch i, after the fetch of its
\* comment chain: acc holds tokens and ins.patches
packOne(i, fetch, limit, acc) ==
    LET fits == ~(acc.tokens + commentChainTokens(fetch) > limit)
        commentChain == fits /\ commentChainTokens(fetch) > 0
    IN  [tokens |-> IF fits THEN acc.tokens + commentChainTokens(fetch) ELSE acc.tokens,
         insPatches |->
            acc.insPatches
                \o << <<"patch", i>> >>
                \o (IF commentChain THEN << <<"comment_chains", i>> >> ELSE <<>>)
                \o << <<"end_change_section", i>> >>]

\* what getCommentChainsWithinRange can give: an exception, no chain (an
\* empty text, 0 tokens) or a chain of some tokens
ChainFetches ==
    {[ok |-> FALSE, tokens |-> 0]} \cup {[ok |-> TRUE, tokens |-> n] : n \in 0..MaxCost}

\* doReview is entered with a pull request (codeReview returns before, when
\* there is none) and with at least one patch of the file; a patch is a hunk
\* text, so it costs at least one token
InitPack ==
    /\ requestTokens \in 1..MaxBudget
    /\ promptTokens \in 0..MaxCost
    /\ patchTokens \in UNION {[1..n -> 1..MaxCost] : n \in 1..MaxUnits}
    /\ chainFetched = <<>>
    /\ tokens = 0
    /\ patchesToPack = 0
    /\ patchesPacked = 0
    /\ insPatches = <<>>
    /\ reviewPc = "count"
    /\ ParseIdle
    /\ AnnotateIdle
    /\ SplitIdle
    /\ SimpleIdle
    /\ OrchIdle

\* let tokens = getTokenCount(prompts.renderReviewFileDiff(ins)) and the
\* first loop over patches
CountPatches ==
    /\ reviewPc = "count"
    /\ LET r == countLoop(patchTokens, requestTokens, 1,
                    [tokens |-> promptTokens, patchesToPack |-> 0])
       IN  /\ tokens' = r.tokens
           /\ patchesToPack' = r.patchesToPack
    /\ reviewPc' = "pack"
    /\ UNCHANGED <<requestTokens, promptTokens, patchTokens, chainFetched,
                   patchesPacked, insPatches, parseVars, annotateVars, splitVars, simpleVars, orchVars>>

\* one iteration of the second loop: the patch is counted, its comment chains
\* are fetched, and the patch is appended with or without them
PackPatch ==
    /\ reviewPc = "pack"
    /\ patchesPacked < Len(patchTokens)
    /\ ~(patchesPacked >= patchesToPack)
    /\ \E fetch \in ChainFetches :
            LET r == packOne(patchesPacked + 1, fetch, requestTokens,
                             [tokens |-> tokens, insPatches |-> insPatches])
            IN  /\ chainFetched' = Append(chainFetched, fetch)
                /\ tokens' = r.tokens
                /\ insPatches' = r.insPatches
    /\ patchesPacked' = patchesPacked + 1
    /\ UNCHANGED <<requestTokens, promptTokens, patchTokens, patchesToPack,
                   reviewPc, parseVars, annotateVars, splitVars, simpleVars, orchVars>>

\* the second loop ends: at its break or after the last patch; the request
\* is sent when a patch was packed, the file is skipped otherwise
PackDone ==
    /\ reviewPc = "pack"
    /\ (patchesPacked >= Len(patchTokens) \/ patchesPacked >= patchesToPack)
    /\ reviewPc' = IF patchesPacked > 0 THEN "review" ELSE "skipped"
    /\ UNCHANGED <<requestTokens, promptTokens, patchTokens, chainFetched, tokens,
                   patchesToPack, patchesPacked, insPatches, parseVars, annotateVars, splitVars, simpleVars, orchVars>>

NextPack == CountPatches \/ PackPatch \/ PackDone

SpecPack == InitPack /\ [][NextPack]_vars

\* --------------------------------------------- getHighestReviewedCommitId
\* the commit ids of the branch, and one id that a history rewrite removed
\* from it
CommitIds == {NumStr(n) : n \in 1..MaxCommits}

RewrittenId == "gone"

\* the text of an existing summary comment holds a block of reviewed ids, or
\* there is no such comment and the block is the empty string
NoBlock == [text |-> "", ids |-> {}]

\* Commenter.getReviewedCommitIds: the ids the block holds
getReviewedCommitIds(block) == block.ids

RECURSIVE commenterHighestReviewed(_, _, _)
\* Commenter.getHighestReviewedCommitId: the branch commits are scanned from
\* the most recent one back, the first reviewed one is the result, "" if none
commenterHighestReviewed(commitIds, reviewedCommitIds, i) ==
    IF i = 0 THEN ""
    ELSE IF commitIds[i] \in reviewedCommitIds THEN commitIds[i]
    ELSE commenterHighestReviewed(commitIds, reviewedCommitIds, i - 1)

\* mutant: a match that equals the head sha is kept as the base
getHighestReviewedCommitId_KeepsHead(commitIds, block, head, base) ==
    LET highest == IF block.text # ""
                   THEN commenterHighestReviewed(commitIds, getReviewedCommitIds(block),
                                                 Len(commitIds))
                   ELSE ""
    IN  IF highest = "" THEN base ELSE highest

\* getHighestReviewedCommitId of review.ts
getHighestReviewedCommitId(commitIds, block, head, base) ==
    LET highest == IF block.text # ""
                   THEN commenterHighestReviewed(commitIds, getReviewedCommitIds(block),
                                                 Len(commitIds))
                   ELSE ""
    IN  IF highest = "" \/ highest = head THEN base ELSE highest

\* Commenter.addReviewedCommitId: the block with the id appended; a block is
\* made when there was none
addReviewedCommitId(block, commitId) ==
    [text |-> "block", ids |-> block.ids \cup {commitId}]

\* the text of a summary comment: the summary and the block of reviewed
\* commit ids it ends with, both empty before anything is built
NoComment == [summary |-> "", block |-> NoBlock]

\* the branch commits: sequences of distinct ids
CommitLists ==
    {s \in UNION {[1..n -> CommitIds] : n \in 1..MaxCommits} :
        \A i, j \in 1..Len(s) : i # j => s[i] # s[j]}

InitBase ==
    /\ allCommitIds \in CommitLists
    /\ existingCommitIdsBlock \in
            {NoBlock} \cup {[text |-> "block", ids |-> r] : r \in SUBSET (CommitIds \cup {RewrittenId})}
    /\ headSha \in CommitIds
    /\ baseSha = "base"
    /\ highestReviewedCommitId = ""
    /\ basePc = "start"
    /\ ParseIdle
    /\ AnnotateIdle
    /\ SplitIdle
    /\ SimpleIdle
    /\ PackIdle
    /\ RunIdle

GetHighestReviewedCommitIdCall ==
    /\ basePc = "start"
    /\ highestReviewedCommitId' =
            getHighestReviewedCommitId(allCommitIds, existingCommitIdsBlock, headSha, baseSha)
    /\ basePc' = "done"
    /\ UNCHANGED <<allCommitIds, existingCommitIdsBlock, headSha, baseSha,
                   parseVars, annotateVars, splitVars, simpleVars, packVars, runVars>>

NextBase == GetHighestReviewedCommitIdCall

SpecBase == InitBase /\ [][NextBase]_vars

\* -------------------------------------------------------------- codeReview
\* the elements of a sequence
Range(seq) == {seq[i] : i \in 1..Len(seq)}

\* Array.filter with a test on the element
Filter(seq, keep) ==
    LET Test(x) == x \in keep
    IN  SelectSeq(seq, Test)

\* p-limit: the tasks are started in the order they were handed over
FirstQueued(task, order) ==
    LET queued == {i \in 1..Len(order) : task[order[i]] = "queued"}
    IN  order[CHOOSE i \in queued : \A j \in queued : i <= j]

\* p-limit: the tasks that hold one of the slots
ActiveCount(task, active) == Cardinality({f \in Names : task[f] \in active})

\* mutant: a handed-over task starts whether or not a slot is free
MayStart_NoLimit(task, order, active, limit, f) ==
    /\ \E i \in 1..Len(order) : task[order[i]] = "queued"
    /\ f = FirstQueued(task, order)

\* p-limit: a handed-over task starts when a slot is free
MayStart(task, order, active, limit, f) ==
    /\ \E i \in 1..Len(order) : task[order[i]] = "queued"
    /\ f = FirstQueued(task, order)
    /\ ActiveCount(task, active) < limit

\* the files a dispatch loop hands over: all of them when options.maxFiles
\* <= 0, otherwise as long as fewer than maxFiles are handed over
Capped(list, maxFiles) ==
    IF maxFiles <= 0 THEN list ELSE SubSeq(list, 1, Min(maxFiles, Len(list)))

\* the files the dispatch loop pushes to skippedFiles
Overflow(list, maxFiles) == SubSeq(list, Len(Capped(list, maxFiles)) + 1, Len(list))

Queue(list) == [f \in Names |-> IF f \in Range(list) THEN "queued" ELSE "none"]

FileLists == {SortedSeq(S) : S \in SUBSET Names}

\* codeReview after the two compareCommits returned; inputs.rawSummary is
\* that of a pull request without an earlier summary comment. getPreview
\* took the block of reviewed commit ids out of the summary comment of the
\* pull request, if there is one; no text is built for the new comment yet.
InitRun ==
    /\ options \in [maxFiles : 0..MaxCap,
                    disableReview : BOOLEAN,
                    reviewSimpleChanges : BOOLEAN,
                    reviewCommentLGTM : BOOLEAN,
                    githubConcurrencyLimit : 1..MaxLimit,
                    openaiConcurrencyLimit : 1..MaxLimit]
    /\ incrementalFiles \in
            {[missing |-> TRUE, names |-> {}]}
                \cup {[missing |-> FALSE, names |-> S] : S \in SUBSET Names}
    /\ targetBranchFiles \in
            {[missing |-> TRUE, names |-> <<>>]}
                \cup {[missing |-> FALSE, names |-> l] : l \in FileLists}
    /\ commits \in 0..1
    /\ runPc = "start"
    /\ files = <<>>
    /\ filterSelectedFiles = <<>>
    /\ contentTask = [f \in Names |-> "none"]
    /\ fileContent = [f \in Names |-> "none"]
    /\ hasPatches = [f \in Names |-> FALSE]
    /\ filesAndChanges = <<>>
    /\ summaryTask = [f \in Names |-> "none"]
    /\ summaryResp = [f \in Names |-> "none"]
    /\ skippedFiles = <<>>
    /\ summaries = <<>>
    /\ rawSummary = <<>>
    /\ batchStart = 0
    /\ filesAndChangesReview = <<>>
    /\ reviewsSkipped = <<>>
    /\ reviewsFailed = <<>>
    /\ reviewTask = [f \in Names |-> "none"]
    /\ commentChains = [f \in Names |-> "none"]
    /\ reviewResp = [f \in Names |-> NoResponse]
    /\ buffered = <<>>
    /\ submitted = 0
    /\ posted = 0
    /\ modelCalled = FALSE
    /\ existingCommitIdsBlock \in {NoBlock, [text |-> "block", ids |-> {NumStr(1)}]}
    /\ headSha = NumStr(2)
    /\ allCommitIds = <<>>
    /\ baseSha = ""
    /\ highestReviewedCommitId = ""
    /\ basePc = "idle"
    /\ summarizeComment = NoComment
    /\ summaryComment = [summary |-> IF existingCommitIdsBlock = NoBlock THEN "" ELSE "summary",
                         block |-> existingCommitIdsBlock]
    /\ ParseIdle
    /\ AnnotateIdle
    /\ SplitIdle
    /\ SimpleIdle
    /\ PackIdle

\* mutant: the files of the target diff are taken whether or not the
\* incremental diff names them
bothDiffs_TargetOnly(target, incremental) == target

\* targetBranchFiles.filter(f => incrementalFiles.some(same filename))
bothDiffs(target, incremental) == Filter(target, incremental)

\* mutant: an empty commit list does not end the run
nothingSelected_IgnoresCommits(sel, n) == Len(sel) = 0

\* the two early returns after the path filter: no selected file, no commit
nothingSelected(sel, n) == Len(sel) = 0 \/ n = 0

\* codeReview from the two compareCommits to the first Promise.all: the
\* files of both diffs, the path filter, the commit list, and the hand-over
\* of one content task per selected file. options.checkPath is any predicate
\* on filenames: selected is the set of names it accepts.
SelectFiles ==
    /\ runPc = "start"
    /\ IF incrementalFiles.missing \/ targetBranchFiles.missing
       THEN /\ runPc' = "aborted"
            /\ UNCHANGED <<files, filterSelectedFiles, contentTask>>
       ELSE LET both == bothDiffs(targetBranchFiles.names, incrementalFiles.names)
            IN  /\ files' = both
                /\ IF Len(both) = 0
                   THEN /\ runPc' = "aborted"
                        /\ UNCHANGED <<filterSelectedFiles, contentTask>>
                   ELSE \E selected \in SUBSET Names :
                        LET sel == Filter(both, selected)
                        IN  /\ filterSelectedFiles' = sel
                            /\ IF nothingSelected(sel, commits)
                               THEN /\ runPc' = "aborted"
                                    /\ UNCHANGED contentTask
                               ELSE /\ runPc' = "contents"
                                    /\ contentTask' = Queue(sel)
    /\ UNCHANGED <<runInputs, fileContent, hasPatches, filesAndChanges, phase1Vars,
                   phase2Vars, modelCalled, parseVars, annotateVars, splitVars, simpleVars, packVars, baseVars, commentVars>>

\* githubConcurrencyLimit starts the next content task
ContentStart(f) ==
    /\ runPc = "contents"
    /\ MayStart(contentTask, filterSelectedFiles, {"active"}, options.githubConcurrencyLimit, f)
    /\ contentTask' = [contentTask EXCEPT ![f] = "active"]
    /\ UNCHANGED <<runInputs, runPc, files, filterSelectedFiles, fileContent, hasPatches,
                   filesAndChanges, phase1Vars, phase2Vars, modelCalled,
                   parseVars, annotateVars, splitVars, simpleVars, packVars, baseVars, commentVars>>

\* octokit.repos.getContent returns or throws (the content stays empty), and
\* the hunks of file.patch are collected
ContentDone(f) ==
    /\ runPc = "contents"
    /\ contentTask[f] = "active"
    /\ \E content \in {"failed", "empty", "text"} :
            fileContent' = [fileContent EXCEPT ![f] = content]
    /\ \E some \in BOOLEAN : hasPatches' = [hasPatches EXCEPT ![f] = some]
    /\ contentTask' = [contentTask EXCEPT ![f] = "done"]
    /\ UNCHANGED <<runInputs, runPc, files, filterSelectedFiles, filesAndChanges,
                   phase1Vars, phase2Vars, modelCalled,
                   parseVars, annotateVars, splitVars, simpleVars, packVars, baseVars, commentVars>>

\* the Promise.all of the content tasks resolves: the files without hunks are
\* dropped and the summaries are dispatched, up to options.maxFiles of them
ContentsAllDone ==
    /\ runPc = "contents"
    /\ \A f \in Range(filterSelectedFiles) : contentTask[f] = "done"
    /\ LET kept == Filter(filterSelectedFiles, {f \in Names : hasPatches[f]})
       IN  /\ filesAndChanges' = kept
           /\ IF Len(kept) = 0
              THEN /\ runPc' = "aborted"
                   /\ UNCHANGED <<summaryTask, skippedFiles>>
              ELSE /\ runPc' = "summaries"
                   /\ summaryTask' = Queue(Capped(kept, options.maxFiles))
                   /\ skippedFiles' = Overflow(kept, options.maxFiles)
    /\ UNCHANGED <<runInputs, files, filterSelectedFiles, contentTask, fileContent,
                   hasPatches, summaryResp, summaries, rawSummary, batchStart,
                   phase2Vars, modelCalled, parseVars, annotateVars, splitVars, simpleVars, packVars, baseVars, commentVars>>

\* mutant: the triage tag is read whatever options.reviewSimpleChanges is
doSummaryResult_AlwaysTriage(f, resp, reviewSimpleChanges) ==
    IF resp \in {"no call", "throw", "empty"} THEN <<>>
    ELSE << <<f, resp # "APPROVED">> >>

\* What doSummary returns for a response of lightBot.chat, as a sequence of
\* no or one result <<filename, needsReview>>: null when no call was made,
\* when the call threw and when the response is empty; the triage tag is
\* read only when options.reviewSimpleChanges is false.
doSummaryResult(f, resp, reviewSimpleChanges) ==
    IF resp \in {"no call", "throw", "empty"} THEN <<>>
    ELSE IF reviewSimpleChanges = FALSE /\ resp \in {"NEEDS_REVIEW", "APPROVED"}
         THEN << <<f, resp = "NEEDS_REVIEW">> >>
         ELSE << <<f, TRUE>> >>

\* what lightBot.chat can give: an exception, an empty response, a summary
\* without a triage tag, a summary with one of the two tags
SummaryResponses == {"throw", "empty", "plain", "NEEDS_REVIEW", "APPROVED"}

\* openaiConcurrencyLimit starts the next doSummary. The loop that dispatches
\* them names the second element of a filesAndChanges entry fileDiff, and
\* that element is the file content: doSummary returns null without a call
\* when it is empty, and when the prompt exceeds the light token limit.
SummaryStart(f) ==
    /\ runPc = "summaries"
    /\ MayStart(summaryTask, filesAndChanges, {"chat"}, options.openaiConcurrencyLimit, f)
    /\ \E call \in BOOLEAN :
        /\ fileContent[f] # "text" => ~call
        /\ IF call
           THEN /\ summaryTask' = [summaryTask EXCEPT ![f] = "chat"]
                /\ modelCalled' = TRUE
                /\ UNCHANGED summaryResp
           ELSE /\ summaryTask' = [summaryTask EXCEPT ![f] = "done"]
                /\ summaryResp' = [summaryResp EXCEPT ![f] = "no call"]
                /\ UNCHANGED modelCalled
    /\ UNCHANGED <<runInputs, runPc, phase0Vars, skippedFiles, summaries, rawSummary,
                   batchStart, phase2Vars, parseVars, annotateVars, splitVars, simpleVars, packVars, baseVars, commentVars>>

\* lightBot.chat of one doSummary returns or throws
SummaryDone(f) ==
    /\ runPc = "summaries"
    /\ summaryTask[f] = "chat"
    /\ \E resp \in SummaryResponses : summaryResp' = [summaryResp EXCEPT ![f] = resp]
    /\ summaryTask' = [summaryTask EXCEPT ![f] = "done"]
    /\ UNCHANGED <<runInputs, runPc, phase0Vars, skippedFiles, summaries, rawSummary,
                   batchStart, phase2Vars, modelCalled,
                   parseVars, annotateVars, splitVars, simpleVars, packVars, baseVars, commentVars>>

BATCH_SIZE == 10

RECURSIVE collectSummaries(_, _, _, _)
\* summaryResults.filter(summary => summary !== null), in the order of the
\* promises
collectSummaries(order, k, resp, reviewSimpleChanges) ==
    IF k > Len(order) THEN <<>>
    ELSE doSummaryResult(order[k], resp[order[k]], reviewSimpleChanges)
            \o collectSummaries(order, k + 1, resp, reviewSimpleChanges)

\* inputs.rawSummary with the summaries of one batch appended
withBatch(raw, sums, i) ==
    raw \o [k \in 1..(Min(i + BATCH_SIZE, Len(sums)) - i) |-> <<"file", sums[i + k][1]>>]

\* the Promise.all of the summaries resolves; the first batch of summaries
\* is joined and given to heavyBot.chat, or, without summaries, the final
\* summary is asked for
SummariesAllDone ==
    /\ runPc = "summaries"
    /\ \A f \in Names : summaryTask[f] \in {"none", "done"}
    /\ LET sums == collectSummaries(Capped(filesAndChanges, options.maxFiles), 1,
                                    summaryResp, options.reviewSimpleChanges)
       IN  /\ summaries' = sums
           /\ IF Len(sums) > 0
              THEN /\ rawSummary' = withBatch(rawSummary, sums, 0)
                   /\ runPc' = "summarize batch"
              ELSE /\ runPc' = "summarize final"
                   /\ UNCHANGED rawSummary
    /\ batchStart' = 0
    /\ modelCalled' = TRUE
    /\ UNCHANGED <<runInputs, phase0Vars, summaryTask, summaryResp, skippedFiles,
                   phase2Vars, parseVars, annotateVars, splitVars, simpleVars, packVars, baseVars, commentVars>>

\* heavyBot.chat(renderSummarizeChangesets) returns: a response that is not
\* empty replaces inputs.rawSummary; then the next batch, or the final summary
SummarizeBatchDone ==
    /\ runPc = "summarize batch"
    /\ \E empty \in BOOLEAN :
        LET raw == IF empty THEN rawSummary ELSE << <<"summarizeResp", 0>> >>
            i == batchStart + BATCH_SIZE
        IN  /\ batchStart' = i
            /\ IF i < Len(summaries)
               THEN /\ rawSummary' = withBatch(raw, summaries, i)
                    /\ UNCHANGED runPc
               ELSE /\ rawSummary' = raw
                    /\ runPc' = "summarize final"
    /\ modelCalled' = TRUE
    /\ UNCHANGED <<runInputs, phase0Vars, summaryTask, summaryResp, skippedFiles,
                   summaries, phase2Vars, parseVars, annotateVars, splitVars, simpleVars, packVars, baseVars, commentVars>>

\* heavyBot.chat(renderSummarize) returns; the release notes are asked for
\* unless options.disableReleaseNotes is set (it is read here only), else
\* the short summary
SummarizeFinalDone ==
    /\ runPc = "summarize final"
    /\ \E disableReleaseNotes \in BOOLEAN :
            runPc' = IF disableReleaseNotes = FALSE THEN "release notes"
                     ELSE "summarize short"
    /\ modelCalled' = TRUE
    /\ UNCHANGED <<runInputs, phase0Vars, phase1Vars, phase2Vars,
                   parseVars, annotateVars, splitVars, simpleVars, packVars, baseVars, commentVars>>

\* heavyBot.chat(renderSummarizeReleaseNotes) returns and the description is
\* updated (a failure of the update is caught); the short summary is asked for
ReleaseNotesDone ==
    /\ runPc = "release notes"
    /\ runPc' = "summarize short"
    /\ modelCalled' = TRUE
    /\ UNCHANGED <<runInputs, phase0Vars, phase1Vars, phase2Vars,
                   parseVars, annotateVars, splitVars, simpleVars, packVars, baseVars, commentVars>>

\* mutant: the summary of a file is looked up by the place of the file in
\* filesAndChanges, not by its filename
needsReview_ByPosition(sums, f) ==
    LET at == {k \in 1..Len(filesAndChanges) : filesAndChanges[k] = f}
        pos == IF at = {} THEN 0 ELSE CHOOSE k \in at : TRUE
    IN  IF pos = 0 \/ pos > Len(sums) THEN TRUE ELSE sums[pos][2]

\* summaries.find(([summaryFilename]) => summaryFilename === filename)?.[2] ?? true
needsReview(sums, f) ==
    LET found == {k \in 1..Len(sums) : sums[k][1] = f}
    IN  IF found = {} THEN TRUE
        ELSE sums[CHOOSE k \in found : \A j \in found : k <= j][2]

\* heavyBot.chat(renderSummarizeShort) returns. With the review disabled the
\* summary comment is next; else the files that need a review are selected
\* and their reviews dispatched, up to options.maxFiles of them. The
\* responses of the summaries were locals of doSummary: from here on only
\* summaries holds what they gave.
SummarizeShortDone ==
    /\ runPc = "summarize short"
    /\ summaryResp' = [f \in Names |-> "none"]
    /\ IF options.disableReview
       THEN /\ runPc' = "comment"
            /\ UNCHANGED <<filesAndChangesReview, reviewsSkipped, reviewTask, skippedFiles>>
       ELSE LET selected == Filter(filesAndChanges,
                                   {f \in Names : needsReview(summaries, f)})
                rest == Filter(filesAndChanges, Names \ Range(selected))
            IN  /\ filesAndChangesReview' = selected
                /\ reviewsSkipped' = [k \in 1..Len(rest) |-> <<rest[k], "">>]
                /\ reviewTask' = Queue(Capped(selected, options.maxFiles))
                /\ skippedFiles' = skippedFiles \o Overflow(selected, options.maxFiles)
                /\ runPc' = "reviews"
    /\ summarizeComment' = [summarizeComment EXCEPT !.summary = "summary"]
    /\ UNCHANGED <<runInputs, phase0Vars, summaryTask, summaries, rawSummary,
                   batchStart, reviewsFailed, commentChains, reviewResp, buffered,
                   submitted, posted, modelCalled, summaryComment,
                   parseVars, annotateVars, splitVars, simpleVars, packVars, baseVars>>

\* openaiConcurrencyLimit starts the next doReview: the patches that fit the
\* request are counted (SpecPack has the arithmetic); when none fits the file
\* is reported as skipped, else the comment chains of the patch are fetched
ReviewStart(f) ==
    /\ runPc = "reviews"
    /\ MayStart(reviewTask, filesAndChangesReview, {"chains", "chat"},
                options.openaiConcurrencyLimit, f)
    /\ \E fits \in BOOLEAN :
        IF fits
        THEN /\ reviewTask' = [reviewTask EXCEPT ![f] = "chains"]
             /\ UNCHANGED reviewsSkipped
        ELSE /\ reviewTask' = [reviewTask EXCEPT ![f] = "done"]
             /\ reviewsSkipped' = Append(reviewsSkipped, <<f, "diff too large">>)
    /\ UNCHANGED <<runInputs, runPc, phase0Vars, phase1Vars, filesAndChangesReview,
                   reviewsFailed, commentChains, reviewResp, buffered, submitted, posted,
                   modelCalled, parseVars, annotateVars, splitVars, simpleVars, packVars, baseVars, commentVars>>

\* commenter.getCommentChainsWithinRange returns or throws (caught); the
\* request is completed and given to heavyBot.chat
ChainsDone(f) ==
    /\ runPc = "reviews"
    /\ reviewTask[f] = "chains"
    /\ \E chains \in {"failed", "empty", "found"} :
            commentChains' = [commentChains EXCEPT ![f] = chains]
    /\ reviewTask' = [reviewTask EXCEPT ![f] = "chat"]
    /\ modelCalled' = TRUE
    /\ UNCHANGED <<runInputs, runPc, phase0Vars, phase1Vars, filesAndChangesReview,
                   reviewsSkipped, reviewsFailed, reviewResp, buffered, submitted, posted,
                   parseVars, annotateVars, splitVars, simpleVars, packVars, baseVars, commentVars>>

\* the patches of a file under review in a run: one hunk
FilePatches == << <<1, MaxLine>> >>

\* what heavyBot.chat can give for a review: the empty string, text without
\* a range header, a comment, a comment with a skip keyword
ReviewResponses ==
    { << <<>> >>,
      << <<"x">> >>,
      << <<"1", "-", "4", ":">>, <<"x">> >>,
      << <<"2", "-", "3", ":">>, <<"LGTM">> >> }

ReviewResults ==
    {[kind |-> "throw", text |-> <<>>]} \cup {[kind |-> "text", text |-> t] : t \in ReviewResponses}

\* SKIP_KEYWORDS.some(keyword => review.comment.includes(keyword))
hasSkipKeyword(comment) ==
    \E i \in 1..Len(comment) : \E j \in 1..Len(comment[i]) : comment[i][j] = "LGTM"

RECURSIVE bufferReviews(_, _, _, _, _, _)
\* the loop over the parsed reviews: a review with a skip keyword is left out
\* unless options.reviewCommentLGTM is set; bufferReviewComment is called for
\* the others, and when it throws for the k-th (k in failing) the failure is
\* recorded and the loop goes on. acc holds buffered and reviewsFailed.
bufferReviews(f, revs, k, reviewCommentLGTM, failing, acc) ==
    IF k > Len(revs) THEN acc
    ELSE bufferReviews(f, revs, k + 1, reviewCommentLGTM, failing,
            IF ~reviewCommentLGTM /\ hasSkipKeyword(revs[k].comment) THEN acc
            ELSE IF k \in failing
                 THEN [acc EXCEPT !.reviewsFailed = Append(@, <<f, "comment failed">>)]
                 ELSE [acc EXCEPT !.buffered =
                            Append(@, <<f, revs[k].startLine, revs[k].endLine>>)])

\* mutant: an empty response is not recorded as a failure
afterChat_EmptyNotRecorded(f, result, reviewCommentLGTM, failing, acc) ==
    IF result.kind = "throw"
    THEN [acc EXCEPT !.reviewsFailed = Append(@, <<f, "threw">>)]
    ELSE IF result.text = << <<>> >>
    THEN acc
    ELSE bufferReviews(f, parseReview(result.text, FilePatches), 1,
                       reviewCommentLGTM, failing, acc)

\* doReview after heavyBot.chat: an exception and an empty response are
\* recorded in reviewsFailed, any other response is parsed and its reviews
\* are buffered
afterChat(f, result, reviewCommentLGTM, failing, acc) ==
    IF result.kind = "throw"
    THEN [acc EXCEPT !.reviewsFailed = Append(@, <<f, "threw">>)]
    ELSE IF result.text = << <<>> >>
    THEN [acc EXCEPT !.reviewsFailed = Append(@, <<f, "no response">>)]
    ELSE bufferReviews(f, parseReview(result.text, FilePatches), 1,
                       reviewCommentLGTM, failing, acc)

\* mutant: an exception of heavyBot.chat is not caught in doReview and ends
\* the run
ReviewChatDone_ThrowEndsRun(f) ==
    /\ runPc = "reviews"
    /\ reviewTask[f] = "chat"
    /\ runPc' = "crashed"
    /\ UNCHANGED <<runInputs, phase0Vars, phase1Vars, phase2Vars, modelCalled,
                   parseVars, annotateVars, splitVars, simpleVars, packVars, baseVars, commentVars>>

\* heavyBot.chat of one doReview returns or throws, and the task ends; the
\* comment chains were a local of the call
ReviewChatDone(f) ==
    /\ runPc = "reviews"
    /\ reviewTask[f] = "chat"
    /\ \E result \in ReviewResults : \E failing \in SUBSET {1} :
        LET r == afterChat(f, result, options.reviewCommentLGTM, failing,
                           [buffered |-> buffered, reviewsFailed |-> reviewsFailed])
        IN  /\ reviewResp' = [reviewResp EXCEPT ![f] = result]
            /\ buffered' = r.buffered
            /\ reviewsFailed' = r.reviewsFailed
    /\ reviewTask' = [reviewTask EXCEPT ![f] = "done"]
    /\ commentChains' = [commentChains EXCEPT ![f] = "none"]
    /\ UNCHANGED <<runInputs, runPc, phase0Vars, phase1Vars, filesAndChangesReview,
                   reviewsSkipped, submitted, posted, modelCalled,
                   parseVars, annotateVars, splitVars, simpleVars, packVars, baseVars, commentVars>>

\* mutant: the review is submitted while a doReview is still running
SubmitReview_BeforeAllDone ==
    /\ runPc = "reviews"
    /\ submitted = 0
    /\ submitted' = submitted + 1
    /\ UNCHANGED <<runInputs, runPc, phase0Vars, phase1Vars, filesAndChangesReview,
                   reviewsSkipped, reviewsFailed, reviewTask, commentChains, reviewResp,
                   buffered, posted, modelCalled,
                   parseVars, annotateVars, splitVars, simpleVars, packVars, baseVars, commentVars>>

\* mutant: the head sha is added to the block only when no review failed
SubmitReview_OnlyWhenNoFailure ==
    /\ runPc = "reviews"
    /\ \A f \in Names : reviewTask[f] \in {"none", "done"}
    /\ summarizeComment' =
            IF reviewsFailed = <<>>
            THEN [summarizeComment EXCEPT
                      !.block = addReviewedCommitId(existingCommitIdsBlock, headSha)]
            ELSE [summarizeComment EXCEPT !.block = existingCommitIdsBlock]
    /\ submitted' = submitted + 1
    /\ runPc' = "comment"
    /\ reviewResp' = [f \in Names |-> NoResponse]
    /\ UNCHANGED <<runInputs, phase0Vars, phase1Vars, filesAndChangesReview,
                   reviewsSkipped, reviewsFailed, reviewTask, commentChains,
                   buffered, posted, modelCalled, summaryComment,
                   parseVars, annotateVars, splitVars, simpleVars, packVars, baseVars>>

\* the Promise.all of the reviews resolves, the block of reviewed commit ids
\* with the head sha added is appended to the text of the summary comment and
\* commenter.submitReview is called; the responses were locals of the
\* doReview calls
SubmitReview ==
    /\ runPc = "reviews"
    /\ \A f \in Names : reviewTask[f] \in {"none", "done"}
    /\ summarizeComment' =
            [summarizeComment EXCEPT
                 !.block = addReviewedCommitId(existingCommitIdsBlock, headSha)]
    /\ submitted' = submitted + 1
    /\ runPc' = "comment"
    /\ reviewResp' = [f \in Names |-> NoResponse]
    /\ UNCHANGED <<runInputs, phase0Vars, phase1Vars, filesAndChangesReview,
                   reviewsSkipped, reviewsFailed, reviewTask, commentChains,
                   buffered, posted, modelCalled, summaryComment,
                   parseVars, annotateVars, splitVars, simpleVars, packVars, baseVars>>

\* commenter.comment(summarizeComment, SUMMARIZE_TAG, 'replace'): the text
\* takes the place of the summary comment of the pull request
PostSummary ==
    /\ runPc = "comment"
    /\ posted' = posted + 1
    /\ summaryComment' = summarizeComment
    /\ runPc' = "done"
    /\ UNCHANGED <<runInputs, phase0Vars, phase1Vars, filesAndChangesReview,
                   reviewsSkipped, reviewsFailed, reviewTask, commentChains, reviewResp,
                   buffered, submitted, modelCalled, summarizeComment,
                   parseVars, annotateVars, splitVars, simpleVars, packVars, baseVars>>

\* ------------------------------------------- doReview: one file, pack to buffer
\* the patches of a file with n hunks: two lines each, a line apart
UnitRanges(n) == [i \in 1..n |-> <<3 * i - 2, 3 * i - 1>>]

\* what heavyBot.chat can give for the file: the empty string, text without
\* range header, one comment on a range (inside the first, second or third
\* hunk, across two hunks, outside all hunks), a comment with a skip keyword
\* and two comments
DoReviewResponses ==
    { << <<>> >>, << <<"x">> >>,
      << <<"1", "-", "2", ":">>, <<"LGTM">> >>,
      << <<"4", "-", "4", ":">>, <<"x">>, <<"7", "-", "8", ":">>, <<"x">> >> }
        \cup { << <<NumStr(r[1]), "-", NumStr(r[2]), ":">>, <<"x">> >> :
                    r \in { <<1, 2>>, <<4, 5>>, <<5, 7>>, <<8, 8>>, <<9, 9>> } }

DoReviewResults ==
    {[kind |-> "throw", text |-> << <<>> >>]}
        \cup {[kind |-> "text", text |-> t] : t \in DoReviewResponses}

\* doReview(filename, fileContent, patches) of the file 1, entered with a
\* pull request and at least one patch; a patch is small or large
InitDoReview ==
    /\ requestTokens \in 1..MaxBudget
    /\ promptTokens \in 0..MaxCost
    /\ patchTokens \in UNION {[1..n -> {1, MaxCost}] : n \in 1..MaxUnits}
    /\ chainFetched = <<>>
    /\ tokens = 0
    /\ patchesToPack = 0
    /\ patchesPacked = 0
    /\ insPatches = <<>>
    /\ reviewPc = "count"
    /\ patches = UnitRanges(Len(patchTokens))
    /\ response = << <<>> >>
    /\ reviews = <<>>
    /\ parsePc = "idle"
    /\ AnnotateIdle
    /\ SplitIdle
    /\ SimpleIdle
    /\ OrchIdle

\* heavyBot.chat returns or throws: an exception and an empty response are
\* recorded in reviewsFailed; any other response is parsed against the
\* patches of the file, all of them, and its reviews are buffered
DoReviewChatDone ==
    /\ reviewPc = "review"
    /\ \E result \in DoReviewResults, reviewCommentLGTM \in BOOLEAN, failing \in SUBSET {1} :
        LET acc == [buffered |-> buffered, reviewsFailed |-> reviewsFailed]
            parsed == IF result.kind = "throw" \/ result.text = << <<>> >>
                      THEN <<>>
                      ELSE parseReview(result.text, patches)
            r == IF result.kind = "throw"
                 THEN [acc EXCEPT !.reviewsFailed = Append(@, <<1, "threw">>)]
                 ELSE IF result.text = << <<>> >>
                 THEN [acc EXCEPT !.reviewsFailed = Append(@, <<1, "no response">>)]
                 ELSE bufferReviews(1, parsed, 1, reviewCommentLGTM, failing, acc)
        IN  /\ response' = result.text
            /\ reviews' = parsed
            /\ buffered' = r.buffered
            /\ reviewsFailed' = r.reviewsFailed
    /\ parsePc' = "done"
    /\ reviewPc' = "reviewed"
    /\ UNCHANGED <<requestTokens, promptTokens, patchTokens, chainFetched, tokens,
                   patchesToPack, patchesPacked, insPatches, patches,
                   annotateVars, splitVars, simpleVars, baseVars, commentVars,
                   runInputs, runPc, phase0Vars, phase1Vars, filesAndChangesReview,
                   reviewsSkipped, reviewTask, commentChains, reviewResp, submitted,
                   posted, modelCalled>>

\* the else branch of doReview: no patch was packed
DoReviewSkipped ==
    /\ reviewPc = "skipped"
    /\ reviewsSkipped' = Append(reviewsSkipped, <<1, "diff too large">>)
    /\ reviewPc' = "reviewed"
    /\ UNCHANGED <<requestTokens, promptTokens, patchTokens, chainFetched, tokens,
                   patchesToPack, patchesPacked, insPatches, parseVars,
                   annotateVars, splitVars, simpleVars, baseVars, commentVars,
                   runInputs, runPc, phase0Vars, phase1Vars, filesAndChangesReview,
                   reviewsFailed, reviewTask, commentChains, reviewResp, buffered,
                   submitted, posted, modelCalled>>

NextDoReview ==
    CountPatches \/ PackPatch \/ PackDone \/ DoReviewChatDone \/ DoReviewSkipped

SpecDoReview == InitDoReview /\ [][NextDoReview]_vars

\* ------------------------------------------- SimpleReview: review per hunk
\* ins.filename of SimpleReview.review: the inputs are made in run with the
\* default filename, the empty string, and no statement of the class assigns
\* the field
NoFilename == 0

\* response.match(/\[TRIAGE\]:\s*(...)/) on a response kept as a sequence of
\* tokens: the verdict of the first place where the tag, white space and one
\* of the verdicts follow each other, "" without such a place
tagVerdict(resp, verdicts) ==
    LET hits == {i \in 1..Len(resp) :
                    /\ resp[i] = "[TRIAGE]:"
                    /\ \E j \in (i + 1)..Len(resp) :
                            /\ resp[j] \in verdicts
                            /\ \A k \in (i + 1)..(j - 1) : resp[k] = " "}
    IN  IF hits = {} THEN ""
        ELSE LET i == CHOOSE i \in hits : \A h \in hits : i <= h
                 j == CHOOSE j \in (i + 1)..Len(resp) :
                            /\ resp[j] \in verdicts
                            /\ \A k \in (i + 1)..(j - 1) : resp[k] = " "
             IN  resp[j]

\* mutant: a response without the tag counts as NEEDS_REVIEW
parseCheckIsNeedToReviewResponse_FailOpen(resp) ==
    IF resp = <<>> THEN FALSE
    ELSE tagVerdict(resp, {"NEEDS_REVIEW", "APPROVED"}) # "APPROVED"

\* parseCheckIsNeedToReviewResponse(response)
parseCheckIsNeedToReviewResponse(resp) ==
    IF resp = <<>> THEN FALSE
    ELSE tagVerdict(resp, {"NEEDS_REVIEW", "APPROVED"}) = "NEEDS_REVIEW"

\* parseCheckReviewValidityResponse(response)
parseCheckReviewValidityResponse(resp) ==
    IF resp = <<>> THEN FALSE
    ELSE tagVerdict(resp, {"VALID", "INVALID"}) = "VALID"

\* what lightBot.chat can give for a check: an exception, the empty string,
\* text without the tag, a verdict without the tag, the tag with one of the
\* verdicts of the triage or of the validity check, with and without white
\* space and other text around
CheckResults ==
    {[kind |-> "throw", text |-> <<>>]}
        \cup {[kind |-> "text", text |-> t] :
                t \in { <<>>, <<"x">>, <<"NEEDS_REVIEW">>,
                        <<"[TRIAGE]:", " ", "NEEDS_REVIEW">>,
                        <<"[TRIAGE]:", "APPROVED">>,
                        <<"x", "[TRIAGE]:", " ", " ", "VALID", "x">>,
                        <<"[TRIAGE]:", " ", "INVALID">> }}

\* what heavyBot.chat can give for the review of a hunk: text, as a sequence
\* of lines, or an exception
HunkReviewResults ==
    {[kind |-> "throw", text |-> <<>>]}
        \cup {[kind |-> "text", text |-> t] :
                t \in { << <<>> >>, << <<"x">> >>,
                        << <<"1", "-", "2", ":">>, <<"x">> >>,
                        << <<"4", "-", "4", ":">>, <<"x">>, <<"7", "-", "8", ":">>, <<"x">> >>,
                        << <<"9", "-", "9", ":">>, <<"LGTM">> >> }}

\* SimpleReview.doReview({filename, patches, inputs, commenter}) is entered
InitSimple ==
    /\ filename \in Names
    /\ \E n \in 0..MaxUnits :
            /\ simplePatches = UnitRanges(n)
            /\ simplePc = IF n > 0 THEN "triage" ELSE "done"
    /\ hunkIndex = 1
    /\ ReviewLocalsFresh
    /\ ParseIdle
    /\ AnnotateIdle
    /\ SplitIdle
    /\ PackIdle
    /\ OrchIdle

\* review returns and the loop of doReview goes to the next patch, with
\* fresh locals, or ends
NextPatch ==
    /\ hunkIndex' = hunkIndex + 1
    /\ simplePc' = IF hunkIndex + 1 > Len(simplePatches) THEN "done" ELSE "triage"
    /\ triageResponse' = NoCall
    /\ isNeedToReview' = FALSE
    /\ reviewResponse' = NoCall
    /\ reviewResult' = <<>>
    /\ validityResponse' = NoCall
    /\ isReviewValid' = FALSE

\* checkIsNeedToReview: lightBot.chat returns or throws (caught, false);
\* review returns when the answer is not NEEDS_REVIEW
CheckIsNeedToReviewDone ==
    /\ simplePc = "triage"
    /\ \E result \in CheckResults :
        LET need == result.kind = "text" /\ parseCheckIsNeedToReviewResponse(result.text)
        IN  IF need
            THEN /\ triageResponse' = result
                 /\ isNeedToReview' = TRUE
                 /\ simplePc' = "review"
                 /\ UNCHANGED <<hunkIndex, reviewResponse, reviewResult,
                                validityResponse, isReviewValid>>
            ELSE NextPatch
    /\ UNCHANGED <<filename, simplePatches, parseVars, annotateVars, splitVars,
                   packVars, orchVars>>

\* executeReview: heavyBot.chat returns or throws (caught, undefined); the
\* response is parsed against the one patch and reviews[0] is the result;
\* review returns when there is none
ExecuteReviewDone ==
    /\ simplePc = "review"
    /\ \E result \in HunkReviewResults :
        LET parsed == IF result.kind = "throw" THEN <<>>
                      ELSE parseReview(result.text, <<simplePatches[hunkIndex]>>)
        IN  IF parsed # <<>>
            THEN /\ reviewResponse' = result
                 /\ reviewResult' = <<parsed[1]>>
                 /\ simplePc' = "validity"
                 /\ UNCHANGED <<hunkIndex, triageResponse, isNeedToReview,
                                validityResponse, isReviewValid>>
            ELSE NextPatch
    /\ UNCHANGED <<filename, simplePatches, parseVars, annotateVars, splitVars,
                   packVars, orchVars>>

\* checkReviewValidity: lightBot.chat returns or throws (caught, false);
\* review returns when the answer is not VALID
CheckReviewValidityDone ==
    /\ simplePc = "validity"
    /\ \E result \in CheckResults :
        LET valid == result.kind = "text" /\ parseCheckReviewValidityResponse(result.text)
        IN  IF valid
            THEN /\ validityResponse' = result
                 /\ isReviewValid' = TRUE
                 /\ simplePc' = "reflect"
                 /\ UNCHANGED <<hunkIndex, triageResponse, isNeedToReview,
                                reviewResponse, reviewResult>>
            ELSE NextPatch
    /\ UNCHANGED <<filename, simplePatches, parseVars, annotateVars, splitVars,
                   packVars, orchVars>>

\* reflectReviewResultToCommenter: commenter.bufferReviewComment is called
\* with ins.filename and the range of the review, and returns or throws
\* (caught)
ReflectReviewResultDone ==
    /\ simplePc = "reflect"
    /\ \E thrown \in BOOLEAN :
            buffered' = IF thrown THEN buffered
                        ELSE Append(buffered, <<NoFilename, reviewResult[1].startLine,
                                                reviewResult[1].endLine>>)
    /\ NextPatch
    /\ UNCHANGED <<filename, simplePatches, parseVars, annotateVars, splitVars,
                   packVars, baseVars, commentVars,
                   runInputs, runPc, phase0Vars, phase1Vars, filesAndChangesReview,
                   reviewsSkipped, reviewsFailed, reviewTask, commentChains,
                   reviewResp, submitted, posted, modelCalled>>

NextSimple ==
    \/ CheckIsNeedToReviewDone
    \/ ExecuteReviewDone
    \/ CheckReviewValidityDone
    \/ ReflectReviewResultDone

SpecSimple == InitSimple /\ [][NextSimple]_vars

NextRun ==
    \/ SelectFiles
    \/ \E f \in Names : ContentStart(f)
    \/ \E f \in Names : ContentDone(f)
    \/ ContentsAllDone
    \/ \E f \in Names : SummaryStart(f)
    \/ \E f \in Names : SummaryDone(f)
    \/ SummariesAllDone
    \/ SummarizeBatchDone
    \/ SummarizeFinalDone
    \/ ReleaseNotesDone
    \/ SummarizeShortDone
    \/ \E f \in Names : ReviewStart(f)
    \/ \E f \in Names : ChainsDone(f)
    \/ \E f \in Names : ReviewChatDone(f)
    \/ SubmitReview
    \/ PostSummary

SpecRun == InitRun /\ [][NextRun]_vars

\* ------------------------------------------------- properties of parseReview
\* The lines parseReview scans, and where its range headers and separators are.
Lines == preprocess(response)

HdrIdx(L) == {i \in 1..Len(L) : lineNumberRangeMatch(L[i]) # <<>>}

SepIdx(L) ==
    {i \in 1..Len(L) : lineNumberRangeMatch(L[i]) = <<>> /\ TrimLine(L[i]) = commentSeparator}

\* the ranges the range headers of L state, in order of appearance
StatedRanges(L) ==
    LET H == SortedSeq(HdrIdx(L))
    IN  [k \in 1..Len(H) |-> lineNumberRangeMatch(L[H[k]])]

\* the lines after each range header, up to the next header or separator
Bodies(L) ==
    LET H == SortedSeq(HdrIdx(L))
        stopSet == HdrIdx(L) \cup SepIdx(L) \cup {Len(L) + 1}
    IN  [k \in 1..Len(H) |->
            LET stops == {j \in stopSet : j > H[k]}
                stop == CHOOSE j \in stops : \A j2 \in stops : j <= j2
            IN  SubSeq(L, H[k] + 1, stop - 1)]

\* the lines a stated range and a unit have in common
Common(m, p) == (m[1]..m[2]) \cap (p[1]..p[2])

Contained(m) ==
    m[1] <= m[2] /\ \E i \in 1..Len(patches) : (m[1]..m[2]) \subseteq (patches[i][1]..patches[i][2])

Disjoint(m) == \A i \in 1..Len(patches) : Common(m, patches[i]) = {}

\* the unit of maximum intersection, the earliest one on a tie
BestUnit(m) ==
    LET i == CHOOSE i \in 1..Len(patches) :
                \A j \in 1..Len(patches) :
                    \/ Cardinality(Common(m, patches[i])) > Cardinality(Common(m, patches[j]))
                    \/ /\ Cardinality(Common(m, patches[i])) = Cardinality(Common(m, patches[j]))
                       /\ i <= j
    IN  patches[i]

NoteLine(note, m) == <<note, NumStr(m[1]), "-", NumStr(m[2]), "]">>

HasNote(r) ==
    /\ Len(r.comment) >= 1
    /\ Len(r.comment[1]) >= 1
    /\ r.comment[1][1] \in {GreatestOverlapNote, NoOverlapNote}

\* C1, as stated: every returned ReviewComment has the (startLine, endLine)
\* pair of one of the known PatchUnits.
C1_RangeEqualsUnit ==
    parsePc = "done" =>
        \A k \in 1..Len(reviews) :
            \E i \in 1..Len(patches) :
                <<reviews[k].startLine, reviews[k].endLine>> = patches[i]

\* C1, amended: every returned ReviewComment has either the (startLine,
\* endLine) pair of one of the known PatchUnits, or a range startLine <=
\* endLine that lies inside one of the known PatchUnits.
C1_RangeWithinUnit ==
    parsePc = "done" =>
        \A k \in 1..Len(reviews) :
            \E i \in 1..Len(patches) :
                \/ <<reviews[k].startLine, reviews[k].endLine>> = patches[i]
                \/ /\ patches[i][1] <= reviews[k].startLine
                   /\ reviews[k].startLine <= reviews[k].endLine
                   /\ reviews[k].endLine <= patches[i][2]

\* a response with a comment kept inside a unit (its range is not the unit's)
\* and a comment mapped onto a unit
C1_Witness ==
    /\ parsePc = "done"
    /\ \E k \in 1..Len(reviews) :
            /\ ~HasNote(reviews[k])
            /\ \A i \in 1..Len(patches) :
                   <<reviews[k].startLine, reviews[k].endLine>> # patches[i]
    /\ \E k \in 1..Len(reviews) : HasNote(reviews[k])

\* C2: a comment whose stated range [s, e], s <= e, lies inside some known
\* unit is returned with startLine = s, endLine = e and its body unchanged,
\* wherever that unit is in the list.
C2_ContainedUnchanged ==
    parsePc = "done" =>
        LET stated == StatedRanges(Lines)
            bodies == Bodies(Lines)
        IN  \A k \in 1..Len(stated) :
                Contained(stated[k]) =>
                    /\ k <= Len(reviews)
                    /\ reviews[k] = [startLine |-> stated[k][1],
                                     endLine |-> stated[k][2],
                                     comment |-> bodies[k]]

\* a comment with a body, contained in a unit that is not the first of the list
C2_Witness ==
    /\ parsePc = "done"
    /\ Len(patches) >= 2
    /\ LET stated == StatedRanges(Lines)
           bodies == Bodies(Lines)
       IN  \E k \in 1..Len(stated) :
                /\ Contained(stated[k])
                /\ bodies[k] # <<>>
                /\ Common(stated[k], patches[1]) = {}
                /\ reviews[k].comment = bodies[k]

\* C3: a comment whose stated range is contained in no known unit but
\* intersects at least one is returned with the range of the unit of maximum
\* intersection (the earliest on a tie) and its body prefixed by the
\* greatest-overlap note citing the stated range.
C3_MappedToGreatestOverlap ==
    parsePc = "done" =>
        LET stated == StatedRanges(Lines)
            bodies == Bodies(Lines)
        IN  \A k \in 1..Len(stated) :
                (~Contained(stated[k]) /\ ~Disjoint(stated[k])) =>
                    /\ k <= Len(reviews)
                    /\ reviews[k] =
                         [startLine |-> BestUnit(stated[k])[1],
                          endLine |-> BestUnit(stated[k])[2],
                          comment |-> <<NoteLine(GreatestOverlapNote, stated[k]), <<>> >>
                                          \o bodies[k]]

\* a comment that overlaps two units by the same number of lines and is mapped
\* onto the first of them
C3_Witness ==
    /\ parsePc = "done"
    /\ Len(patches) >= 2
    /\ LET stated == StatedRanges(Lines)
       IN  \E k \in 1..Len(stated) :
                /\ ~Contained(stated[k])
                /\ \E i, j \in 1..Len(patches) :
                       /\ i < j
                       /\ Common(stated[k], patches[i]) # {}
                       /\ Cardinality(Common(stated[k], patches[i]))
                            = Cardinality(Common(stated[k], patches[j]))
                       /\ <<reviews[k].startLine, reviews[k].endLine>> = patches[i]
                /\ HasNote(reviews[k])

\* C4: a comment whose stated range intersects no known unit (an inverted
\* range included) is returned with the range of the first known unit and
\* its body prefixed by the no-overlap note citing the stated range.
C4_DisjointToFirstUnit ==
    parsePc = "done" =>
        LET stated == StatedRanges(Lines)
            bodies == Bodies(Lines)
        IN  \A k \in 1..Len(stated) :
                Disjoint(stated[k]) =>
                    /\ k <= Len(reviews)
                    /\ reviews[k] =
                         [startLine |-> patches[1][1],
                          endLine |-> patches[1][2],
                          comment |-> <<NoteLine(NoOverlapNote, stated[k]), <<>> >>
                                          \o bodies[k]]

\* an inverted range and a range that no unit touches, each mapped onto the
\* first of at least two units
C4_Witness ==
    /\ parsePc = "done"
    /\ Len(patches) >= 2
    /\ LET stated == StatedRanges(Lines)
       IN  /\ \E k \in 1..Len(stated) :
                  /\ stated[k][1] > stated[k][2]
                  /\ <<reviews[k].startLine, reviews[k].endLine>> = patches[1]
           /\ \E k \in 1..Len(stated) :
                  /\ stated[k][1] <= stated[k][2]
                  /\ Disjoint(stated[k])
                  /\ <<reviews[k].startLine, reviews[k].endLine>> = patches[1]

\* the range a returned comment was stated with: the one its note cites, or
\* its own when it has no note
OrigRange(r) ==
    IF HasNote(r)
    THEN <<parseInt(r.comment[1][2]), parseInt(r.comment[1][4])>>
    ELSE <<r.startLine, r.endLine>>

\* C5: parseReview returns exactly one ReviewComment per range-header line of
\* the preprocessed response, in order of appearance, whatever the range and
\* the body; separators neither add nor remove a comment.
C5_OneCommentPerHeader ==
    parsePc = "done" =>
        LET stated == StatedRanges(Lines)
        IN  /\ Len(reviews) = Len(stated)
            /\ \A k \in 1..Len(reviews) : OrigRange(reviews[k]) = stated[k]

\* two headers with a separator between them, the second comment empty, out
\* of range and still open at the end of the input
C5_Witness ==
    /\ parsePc = "done"
    /\ Len(reviews) = 2
    /\ HasNote(reviews[2])
    /\ Len(StatedRanges(Lines)) = 2
    /\ \E i \in HdrIdx(Lines), j \in SepIdx(Lines) : i < j
    /\ Len(Lines) \in HdrIdx(Lines)

\* -------------------------------------------------- properties of parsePatch
\* the numbers b, c, d of the header "@@ -a,b +c,d @@" of the hunk
HdrOldLen == parseInt(patch[1][6])

HdrNewStart == parseInt(patch[1][9])

HdrNewLen == parseInt(patch[1][11])

\* the body of the hunk: the lines after the header, without the empty line
\* that a final newline leaves
Body ==
    IF Len(patch) >= 2 /\ patch[Len(patch)] = <<>>
    THEN SubSeq(patch, 2, Len(patch) - 1)
    ELSE SubSeq(patch, 2, Len(patch))

IsPlus(line) == line # <<>> /\ line[1] = "+"

IsMinus(line) == line # <<>> /\ line[1] = "-"

\* what the program takes for a context line: neither added nor removed
IsContext(line) == ~IsPlus(line) /\ ~IsMinus(line)

NotPlus(line) == ~IsPlus(line)

NotMinus(line) == ~IsMinus(line)

\* every line of the body is an added, a removed or a context line of the
\* diff format (no "\ No newline at end of file" marker)
PlainBody(body) == \A p \in 1..Len(body) : body[p] # <<>> /\ body[p][1] \in {"+", "-", " "}

HasPrefix(line) == Len(line) >= 3 /\ IsNum(line[1]) /\ line[2] = ":" /\ line[3] = " "

\* the text of a line of the file: a body line without its + or -, a context
\* line as it stands (the program keeps the leading space of a context line)
FileText(line) == IF IsPlus(line) \/ IsMinus(line) THEN Tail(line) ELSE line

\* a line of newHunk without its line-number prefix
Unprefixed(line) == IF HasPrefix(line) THEN SubSeq(line, 4, Len(line)) ELSE line

\* the place in newHunk of the body line at position p
NewIdx(body, p) == Cardinality({q \in 1..p : ~IsMinus(body[q])})

\* the body positions inside the skip window: the first three and the last
\* three lines of the body
InSkipWindow(body, p) == p <= 3 \/ p > Len(body) - 3

\* the context lines of the body that are among its first three or its last
\* three context lines
OuterContext(body) ==
    LET ctx == {p \in 1..Len(body) : IsContext(body[p])}
        rank(p) == Cardinality({q \in ctx : q <= p})
    IN  {p \in ctx : rank(p) <= 3 \/ rank(p) > Cardinality(ctx) - 3}

\* C6, as stated: for a hunk whose body is consistent with its header, newHunk
\* has exactly d line-number-prefixed lines and oldHunk holds the b old lines.
C6_ExactlyDPrefixed ==
    (annotatePc = "done" /\ PlainBody(Body)) =>
        /\ Cardinality({k \in 1..Len(hunks.newHunk) : HasPrefix(hunks.newHunk[k])}) = HdrNewLen
        /\ Len(hunks.oldHunk) = HdrOldLen

\* C6, amended: for a hunk whose body is made of added, removed and context
\* lines consistent with its header, newHunk has exactly d lines, the d
\* new-file lines in order, of which all are prefixed in a hunk without +
\* line and all but the context lines in the first three and last three body
\* positions otherwise; oldHunk is exactly the b old-file lines in order.
C6_NewAndOldLines ==
    (annotatePc = "done" /\ PlainBody(Body)) =>
        LET body == Body
            newSide == SelectSeq(body, NotMinus)
            oldSide == SelectSeq(body, NotPlus)
            skipped == IF \E p \in 1..Len(body) : IsPlus(body[p])
                       THEN {p \in 1..Len(body) : IsContext(body[p]) /\ InSkipWindow(body, p)}
                       ELSE {}
        IN  /\ Len(hunks.newHunk) = HdrNewLen
            /\ Len(newSide) = HdrNewLen
            /\ \A k \in 1..Len(newSide) : Unprefixed(hunks.newHunk[k]) = FileText(newSide[k])
            /\ Cardinality({k \in 1..Len(hunks.newHunk) : HasPrefix(hunks.newHunk[k])})
                 = HdrNewLen - Cardinality(skipped)
            /\ Len(hunks.oldHunk) = HdrOldLen
            /\ hunks.oldHunk = [k \in 1..Len(oldSide) |-> FileText(oldSide[k])]

\* a hunk with removed, added and context lines, some context lines prefixed
\* and some not
C6_Witness ==
    /\ annotatePc = "done"
    /\ PlainBody(Body)
    /\ \E p \in 1..Len(Body) : IsPlus(Body[p])
    /\ \E p \in 1..Len(Body) : IsMinus(Body[p])
    /\ \E p \in 1..Len(Body) :
            IsContext(Body[p]) /\ HasPrefix(hunks.newHunk[NewIdx(Body, p)])
    /\ \E p \in 1..Len(Body) :
            IsContext(Body[p]) /\ ~HasPrefix(hunks.newHunk[NewIdx(Body, p)])
    /\ Len(hunks.newHunk) = HdrNewLen

\* C7, as stated: in a hunk with a + line, the first three context lines and
\* the last three context lines have no line-number prefix in newHunk.
C7_OuterContextUnnumbered ==
    (annotatePc = "done" /\ \E p \in 1..Len(Body) : IsPlus(Body[p])) =>
        \A p \in OuterContext(Body) : ~HasPrefix(hunks.newHunk[NewIdx(Body, p)])

\* C7, amended: in a hunk with a + line, the context lines that stand in the
\* first three or in the last three lines of the hunk body have no
\* line-number prefix in newHunk.
C7_SkipWindowUnnumbered ==
    (annotatePc = "done" /\ \E p \in 1..Len(Body) : IsPlus(Body[p])) =>
        \A p \in 1..Len(Body) :
            (IsContext(Body[p]) /\ InSkipWindow(Body, p)) =>
                ~HasPrefix(hunks.newHunk[NewIdx(Body, p)])

\* a hunk with a + line and context lines at the third position, at the
\* third position from the end and in between, only the last one prefixed
C7_Witness ==
    /\ annotatePc = "done"
    /\ Len(Body) >= 7
    /\ \E p \in 1..Len(Body) : IsPlus(Body[p])
    /\ IsContext(Body[3]) /\ ~HasPrefix(hunks.newHunk[NewIdx(Body, 3)])
    /\ IsContext(Body[Len(Body) - 2])
    /\ ~HasPrefix(hunks.newHunk[NewIdx(Body, Len(Body) - 2)])
    /\ \E p \in 4..(Len(Body) - 3) :
            IsContext(Body[p]) /\ HasPrefix(hunks.newHunk[NewIdx(Body, p)])

\* C25: in a hunk body of n lines (one trailing empty line removed), a
\* context line at body position p has a line-number prefix in newHunk if
\* and only if the hunk has no + line or 3 < p <= n - 3; a + line has the
\* prefix at every position; the number of a prefixed line is the new start
\* of the header plus the number of context and + lines before it.
C25_NumberedPositions ==
    annotatePc = "done" =>
        LET body == Body
            n == Len(body)
            newStart == parseInt(patch[1][9])
            noPlus == ~\E q \in 1..n : IsPlus(body[q])
        IN  \A p \in 1..n :
                ~IsMinus(body[p]) =>
                    LET out == hunks.newHunk[NewIdx(body, p)]
                        before == Cardinality({q \in 1..(p - 1) : ~IsMinus(body[q])})
                    IN  /\ IsContext(body[p]) =>
                              (HasPrefix(out) <=> (noPlus \/ (3 < p /\ p <= n - 3)))
                        /\ IsPlus(body[p]) => HasPrefix(out)
                        /\ HasPrefix(out) =>
                              out = Numbered(newStart + before, FileText(body[p]))

\* a hunk that starts with a + line and a context line and has a context
\* line at the fourth of its seven positions: the + line has the new start,
\* the second line no number, the fourth the new start plus 3 minus the
\* removed lines before it
C25_Witness ==
    /\ annotatePc = "done"
    /\ Len(Body) = 7
    /\ IsPlus(Body[1]) /\ IsContext(Body[2]) /\ IsMinus(Body[3]) /\ IsContext(Body[4])
    /\ hunks.newHunk[1] = Numbered(parseInt(patch[1][9]), Tail(Body[1]))
    /\ ~HasPrefix(hunks.newHunk[2])
    /\ hunks.newHunk[3] = Numbered(parseInt(patch[1][9]) + 2, Body[4])

\* ------------------------------------------- properties of doReview's packing
PackFinished == reviewPc \in {"review", "skipped"}

RECURSIVE SumTo(_, _)
\* the sum of the first k elements of a sequence of numbers
SumTo(seq, k) == IF k = 0 THEN 0 ELSE seq[k] + SumTo(seq, k - 1)

\* the units before the first unit whose own cost exceeds the limit
BeforeFirstOversize ==
    LET over == {i \in 1..Len(patchTokens) : patchTokens[i] > requestTokens}
    IN  IF over = {} THEN Len(patchTokens)
        ELSE (CHOOSE i \in over : \A j \in over : i <= j) - 1

\* the units before the first unit that, added to the prompt and to all units
\* before it, exceeds the limit
BeforeFirstOverflow ==
    LET over == {i \in 1..Len(patchTokens) :
                    promptTokens + SumTo(patchTokens, i) > requestTokens}
    IN  IF over = {} THEN Len(patchTokens)
        ELSE (CHOOSE i \in over : \A j \in over : i <= j) - 1

\* the units of the rendered request, in the order of the text
PackedOrder ==
    LET IsPatch(section) == section[1] = "patch"
        secs == SelectSeq(insPatches, IsPatch)
    IN  [k \in 1..Len(secs) |-> secs[k][2]]

\* C8, as stated: with existingTokens = 0 no packed unit has a cost above the
\* budget, and packedCount is the number of units before the first such unit.
C8_StopsAtFirstOversize ==
    (PackFinished /\ promptTokens = 0) =>
        /\ \A i \in 1..patchesPacked : patchTokens[i] <= requestTokens
        /\ patchesPacked = BeforeFirstOversize
        /\ PackedOrder = [k \in 1..patchesPacked |-> k]

\* C8, amended: with existingTokens = 0 no packed unit has a cost above the
\* budget; packedCount is the number of units before the first unit whose
\* cost, added to the costs of the units before it, exceeds the budget, which
\* is at most the number of units before the first unit whose own cost
\* exceeds it; the packed units keep their order.
C8_StopsAtFirstOverflow ==
    (PackFinished /\ promptTokens = 0) =>
        /\ \A i \in 1..patchesPacked : patchTokens[i] <= requestTokens
        /\ patchesPacked = BeforeFirstOverflow
        /\ patchesPacked <= BeforeFirstOversize
        /\ PackedOrder = [k \in 1..patchesPacked |-> k]

\* the first unit is packed and the next, whose own cost exceeds the budget,
\* is not
C8_Witness ==
    /\ PackFinished
    /\ promptTokens = 0
    /\ patchesPacked = 1
    /\ Len(patchTokens) > 1
    /\ patchTokens[2] > requestTokens
    /\ PackedOrder = <<1>>

\* a comment chain is in the request
Included(i) == \E q \in 1..Len(insPatches) : insPatches[q] = <<"comment_chains", i>>

\* there is a context block for unit i: the fetch gave a chain
Offered(i) == chainFetched[i].ok /\ chainFetched[i].tokens > 0

RECURSIVE SinglePass(_, _, _)
\* The single greedy pass of the specification over the units from i on:
\* the unit is tested against the running total, then its context block;
\* the result is the count of packed units and the set of included blocks.
SinglePass(i, running, acc) ==
    IF i > Len(patchTokens) \/ running + patchTokens[i] > requestTokens THEN acc
    ELSE LET withUnit == running + patchTokens[i]
             block == /\ i <= Len(chainFetched)
                      /\ Offered(i)
                      /\ withUnit + chainFetched[i].tokens <= requestTokens
         IN  SinglePass(i + 1,
                 IF block THEN withUnit + chainFetched[i].tokens ELSE withUnit,
                 [packedCount |-> acc.packedCount + 1,
                  blocks |-> IF block THEN acc.blocks \cup {i} ELSE acc.blocks])

SinglePassResult == SinglePass(1, promptTokens, [packedCount |-> 0, blocks |-> {}])

\* the running total when the context block of unit i is tried: the prompt,
\* all the packed units and the blocks included before
TotalBeforeBlock(i) ==
    LET sizes == [j \in 1..(i - 1) |-> IF Included(j) THEN chainFetched[j].tokens ELSE 0]
    IN  promptTokens + SumTo(patchTokens, patchesToPack) + SumTo(sizes, i - 1)

\* C9, as stated: doReview packs the same number of units and includes the
\* same context blocks as the single greedy pass of the specification.
C9_SameAsSinglePass ==
    PackFinished =>
        /\ patchesPacked = SinglePassResult.packedCount
        /\ {i \in 1..patchesPacked : Included(i)} = SinglePassResult.blocks

\* C9, amended: doReview packs in two passes. packedCount is the number of
\* leading units whose costs, added to existingTokens, fit the budget, the
\* context blocks not counted; then the context block of each packed unit, in
\* order, is included when it fits the total of existingTokens, all packed
\* units and the blocks included before it. packedCount is never smaller than
\* that of the single pass, and both results are the same when the single
\* pass includes no block.
C9_TwoPassGreedy ==
    PackFinished =>
        /\ patchesPacked = BeforeFirstOverflow
        /\ \A i \in 1..patchesPacked :
                Included(i) <=>
                    (Offered(i) /\ TotalBeforeBlock(i) + chainFetched[i].tokens <= requestTokens)
        /\ patchesPacked >= SinglePassResult.packedCount
        /\ SinglePassResult.blocks = {} =>
                /\ patchesPacked = SinglePassResult.packedCount
                /\ \A i \in 1..patchesPacked : ~Included(i)

\* two units are packed, the block of the first is included and the block of
\* the second no longer fits
C9_Witness ==
    /\ PackFinished
    /\ patchesPacked >= 2
    /\ Included(1)
    /\ Offered(2) /\ ~Included(2)
    /\ patchesPacked = SinglePassResult.packedCount

\* C10: each of the first packedCount units is in the rendered request,
\* followed by the end-of-unit delimiter, with its context block between
\* them or without it; a block that does not fit, or whose fetch failed, is
\* left out, the unit stays, and packedCount is what the units alone gave.
C10_UnitKeptWithoutBlock ==
    /\ reviewPc \in {"pack", "review", "skipped"} =>
        /\ Len(chainFetched) = patchesPacked
        /\ patchesPacked <= patchesToPack
        /\ \A i \in 1..patchesPacked :
            /\ \E q \in 1..Len(insPatches) :
                /\ insPatches[q] = <<"patch", i>>
                /\ \/ insPatches[q + 1] = <<"end_change_section", i>>
                   \/ /\ insPatches[q + 1] = <<"comment_chains", i>>
                      /\ insPatches[q + 2] = <<"end_change_section", i>>
            /\ (\/ ~chainFetched[i].ok
                \/ TotalBeforeBlock(i) + chainFetched[i].tokens > requestTokens)
                    => ~Included(i)
    /\ PackFinished =>
        /\ patchesPacked = patchesToPack
        /\ patchesPacked = BeforeFirstOverflow

\* a request with three units: the fetch of the first block failed, the
\* second block is included, the third does not fit
C10_Witness ==
    /\ reviewPc = "review"
    /\ patchesPacked = 3
    /\ ~chainFetched[1].ok
    /\ Included(2)
    /\ Offered(3) /\ ~Included(3)
    /\ \E q \in 1..Len(insPatches) :
            insPatches[q] = <<"patch", 3>> /\ insPatches[q + 1] = <<"end_change_section", 3>>

RECURSIVE IncludedChainTokens(_)
\* the tokens of the comment chains that are in the request, over the first
\* k packed patches
IncludedChainTokens(k) ==
    IF k = 0 THEN 0
    ELSE IncludedChainTokens(k - 1)
            + (IF <<"comment_chains", k>> \in Range(insPatches)
               THEN commentChainTokens(chainFetched[k]) ELSE 0)

\* C27: whenever a review request is sent for a file, the running token
\* total is the tokens of the prompt without patches plus the costs of the
\* packed patches plus the costs of the included comment chains, and it is at
\* most the request-token limit; when not even the first patch fits, no
\* request is sent and the file is recorded as skipped (diff too large).
C27_RequestWithinBudget ==
    /\ reviewPc = "review" =>
            /\ patchesPacked > 0
            /\ tokens = promptTokens + SumTo(patchTokens, patchesPacked)
                            + IncludedChainTokens(patchesPacked)
            /\ tokens <= requestTokens
    /\ PackFinished =>
            (promptTokens + patchTokens[1] > requestTokens
                <=> (reviewPc = "skipped" /\ patchesPacked = 0 /\ insPatches = <<>>))

\* a request with two patches and the comment chain of the first, which uses
\* the limit up, while the chain of the second was left out; the third patch
\* was not packed
C27_Witness ==
    /\ reviewPc = "review"
    /\ patchesPacked = 2 /\ Len(patchTokens) = 3
    /\ tokens = requestTokens
    /\ <<"comment_chains", 1>> \in Range(insPatches)
    /\ commentChainTokens(chainFetched[2]) > 0
    /\ <<"comment_chains", 2>> \notin Range(insPatches)

\* the first patch does not fit and the file is skipped
C27_WitnessSkipped ==
    /\ reviewPc = "skipped"
    /\ promptTokens + patchTokens[1] > requestTokens
    /\ promptTokens <= requestTokens

\* ------------------------------- properties of getHighestReviewedCommitId
\* the positions of the branch commits that the persisted block names
MatchIdx ==
    IF existingCommitIdsBlock.text = "" THEN {}
    ELSE {i \in 1..Len(allCommitIds) : allCommitIds[i] \in existingCommitIdsBlock.ids}

MostRecentMatch == allCommitIds[CHOOSE i \in MatchIdx : \A j \in MatchIdx : j <= i]

\* C11: the base of the incremental diff is the PR base sha when the
\* persisted block is empty, when no reviewed id matches a branch commit, or
\* when the most recent match is the head sha; in every other case it is the
\* most recent matched commit id.
C11_BaseOfIncrementalDiff ==
    basePc = "done" =>
        highestReviewedCommitId =
            IF existingCommitIdsBlock.text = "" THEN baseSha
            ELSE IF MatchIdx = {} THEN baseSha
            ELSE IF MostRecentMatch = headSha THEN baseSha
            ELSE MostRecentMatch

\* two reviewed commits are on the branch, the head is not reviewed, and the
\* later of the two is the base
C11_Witness ==
    /\ basePc = "done"
    /\ Cardinality(MatchIdx) >= 2
    /\ MostRecentMatch # headSha
    /\ highestReviewedCommitId = MostRecentMatch
    /\ highestReviewedCommitId # baseSha

\* ------------------------------------------------- properties of codeReview
\* the filenames of the full target diff and of the incremental diff
TargetNames == Range(targetBranchFiles.names)

IncrementalNames == incrementalFiles.names

\* a summarization or a review was dispatched for the file
Summarized(f) == summaryTask[f] # "none"

Reviewed(f) == reviewTask[f] # "none"

\* C12: the files eligible for summarization and review are exactly the
\* files of the full target diff whose filename is also in the incremental
\* diff, and a file that is in only one of the two diffs is never summarized
\* or reviewed.
C12_EligibleInBothDiffs ==
    /\ runPc \notin {"start", "aborted"} =>
            /\ Range(files) = TargetNames \cap IncrementalNames
            /\ files = Filter(targetBranchFiles.names, IncrementalNames)
    /\ \A f \in Names :
            (contentTask[f] # "none" \/ Summarized(f) \/ Reviewed(f)) =>
                f \in TargetNames /\ f \in IncrementalNames

\* a run is over in which one file was summarized and reviewed and another
\* file, named by the target diff only, was not
C12_Witness ==
    /\ runPc = "done"
    /\ \E f, g \in Names :
        /\ Summarized(f) /\ Reviewed(f)
        /\ g \in TargetNames \ IncrementalNames
        /\ ~Summarized(g) /\ ~Reviewed(g)

\* every dispatched doReview has finished
ReviewsFinished == \A f \in Names : reviewTask[f] \in {"none", "done"}

\* C13: in a run with review enabled that reaches Phase 2, the buffered
\* comments are submitted exactly once, and only after every dispatched
\* Phase-2 task has finished; no comment is buffered after the submission,
\* and the summary comment is posted after the submission.
C13_SubmitAfterAllReviews ==
    /\ [](submitted <= 1)
    /\ []((runPc \in {"comment", "done"} /\ ~options.disableReview) => submitted = 1)
    /\ [][submitted' # submitted => (runPc = "reviews" /\ ReviewsFinished)]_vars
    /\ [][submitted >= 1 => buffered' = buffered]_vars
    /\ [][(posted' # posted /\ ~options.disableReview) => submitted = 1]_vars

\* the review is submitted with the comments of two files, and the summary
\* is posted
C13_Witness ==
    /\ runPc = "done"
    /\ submitted = 1
    /\ posted = 1
    /\ \A f \in Names : \E k \in 1..Len(buffered) : buffered[k][1] = f

\* the files a summary, and a review, was dispatched for
SummaryDispatched == Range(Capped(filesAndChanges, options.maxFiles))

ReviewDispatched == Range(Capped(filesAndChangesReview, options.maxFiles))

\* the entries of reviewsFailed and the buffered comments of a file
FailuresOf(f) == {k \in 1..Len(reviewsFailed) : reviewsFailed[k][1] = f}

BufferedOf(f) == {k \in 1..Len(buffered) : buffered[k][1] = f}

\* C14: a failure of the content fetch, the model call, the comment-chain
\* fetch or the comment buffering of one file is caught within that file's
\* task: the run goes on from every state it reaches after Phase 0 began,
\* it never ends early once files with hunks were found, and when it is over
\* every dispatched task of every file has ended, the review was submitted
\* (unless disabled) and the summary was posted.
C14_FailuresCaught ==
    /\ runPc \notin {"done", "aborted"} => ENABLED NextRun
    /\ runPc = "aborted" => \A f \in Names : ~Summarized(f) /\ ~Reviewed(f)
    /\ runPc = "done" =>
        /\ \A f \in SummaryDispatched : summaryTask[f] = "done"
        /\ posted = 1
        /\ ~options.disableReview =>
            /\ \A f \in ReviewDispatched : reviewTask[f] = "done"
            /\ submitted = 1

\* the run is over, the review submitted and the summary posted: the content
\* fetch of one file failed and its review call threw, the buffering of the
\* comment of the other file failed
C14_Witness ==
    /\ runPc = "done"
    /\ submitted = 1
    /\ posted = 1
    /\ \E f, g \in Names :
        /\ f # g
        /\ fileContent[f] = "failed"
        /\ \E k \in FailuresOf(f) : reviewsFailed[k][2] = "threw"
        /\ \E k \in FailuresOf(g) : reviewsFailed[k][2] = "comment failed"

\* the host-API requests in flight: file-content fetches and comment-chain
\* fetches
HostInFlight ==
    Cardinality({f \in Names : contentTask[f] = "active"})
        + Cardinality({f \in Names : reviewTask[f] = "chains"})

\* C15: at every moment the number of host-API requests in flight is at most
\* options.githubConcurrencyLimit.
C15_HostCallsWithinLimit == HostInFlight <= options.githubConcurrencyLimit

RollupPcs == {"summarize batch", "summarize final", "release notes", "summarize short"}

\* the model calls in flight: the chats of doSummary, the chat of the rollup
\* the run awaits, the chats of doReview
ModelInFlight ==
    Cardinality({f \in Names : summaryTask[f] = "chat"})
        + (IF runPc \in RollupPcs THEN 1 ELSE 0)
        + Cardinality({f \in Names : reviewTask[f] = "chat"})

\* C16: at every moment the number of model calls in flight is at most
\* options.openaiConcurrencyLimit, in Phase 1, in the rollup and in Phase 2.
C16_ModelCallsWithinLimit == ModelInFlight <= options.openaiConcurrencyLimit

\* with a limit of 1, the review chat of one file is in flight and the review
\* of another file waits for it
C16_Witness ==
    /\ options.openaiConcurrencyLimit = 1
    /\ ModelInFlight = 1
    /\ \E f, g \in Names : reviewTask[f] = "chat" /\ reviewTask[g] = "queued"

\* C17: with options.maxFiles > 0, no summarization call and no review call
\* is issued for a file recorded in skippedFiles; with maxFiles <= 0 no file
\* is recorded there.
C17_SkippedNotProcessed ==
    /\ options.maxFiles > 0 =>
            \A f \in Range(skippedFiles) :
                summaryTask[f] # "chat" /\ reviewTask[f] # "chat"
    /\ options.maxFiles <= 0 => skippedFiles = <<>>

\* the file has an entry in summaries, and the entry says it needs no review
InSummaries(f) == \E k \in 1..Len(summaries) : summaries[k][1] = f

ApprovedInSummaries(f) == \E k \in 1..Len(summaries) : summaries[k] = <<f, FALSE>>

\* the response of the summarization of the file is a summary
UsableSummary(f) == summaryResp[f] \in {"plain", "NEEDS_REVIEW", "APPROVED"}

PastEarlyReturns == runPc \notin {"start", "contents", "aborted"}

\* C19: when the diff file lists are missing, no file is in both diffs, no
\* file passes the path filter, the commit list is empty, or no file yields
\* a hunk, the run ends without a model call, without submitting a review
\* and without posting the summary comment.
C19_NothingToDoEndsSilently ==
    /\ PastEarlyReturns =>
        /\ ~incrementalFiles.missing /\ ~targetBranchFiles.missing
        /\ files # <<>>
        /\ filterSelectedFiles # <<>>
        /\ commits > 0
        /\ \E f \in Range(filterSelectedFiles) : hasPatches[f]
    /\ ~PastEarlyReturns => ~modelCalled /\ submitted = 0 /\ posted = 0
    /\ (runPc = "contents" /\ \A f \in Range(filterSelectedFiles) :
                                contentTask[f] = "done" /\ ~hasPatches[f])
            => ~ENABLED (NextRun /\ runPc' # "aborted")
    /\ runPc = "aborted" => ~ENABLED NextRun

\* the contents of two files were fetched, no file gave a hunk, and the run
\* ended
C19_Witness ==
    /\ runPc = "aborted"
    /\ Len(filterSelectedFiles) = 2
    /\ \A f \in Range(filterSelectedFiles) : contentTask[f] = "done" /\ ~hasPatches[f]
    /\ ~modelCalled /\ submitted = 0 /\ posted = 0

\* the review of the file has ended and its response is at hand
ReviewAnswered(f) == reviewTask[f] = "done" /\ reviewResp[f].kind = "text"

\* the response holds no range-header line
NoRangeHeader(text) == HdrIdx(preprocess(text)) = {}

\* C20, as stated: a review response that is empty, or that holds no
\* range-header line, yields no buffered comment for the file and no entry
\* in the failure list.
C20_MalformedIsNoFailure ==
    \A f \in Names :
        (ReviewAnswered(f) /\ NoRangeHeader(reviewResp[f].text)) =>
            BufferedOf(f) = {} /\ FailuresOf(f) = {}

\* C20, amended: a review response that is not empty and holds no
\* range-header line yields no buffered comment for the file and no entry in
\* the failure list; an empty response yields no buffered comment either,
\* and the file is recorded in the failure list, once, as without response.
C20_HeaderlessIsNoFailure ==
    \A f \in Names :
        (ReviewAnswered(f) /\ NoRangeHeader(reviewResp[f].text)) =>
            /\ BufferedOf(f) = {}
            /\ IF reviewResp[f].text = << <<>> >>
               THEN /\ Cardinality(FailuresOf(f)) = 1
                    /\ \A k \in FailuresOf(f) : reviewsFailed[k] = <<f, "no response">>
               ELSE FailuresOf(f) = {}

\* the review of one file got an empty response, the review of another a
\* response without a range header
C20_Witness ==
    \E f, g \in Names :
        /\ ReviewAnswered(f) /\ reviewResp[f].text = << <<>> >>
        /\ ReviewAnswered(g) /\ reviewResp[g].text = << <<"x">> >>
        /\ BufferedOf(g) = {} /\ FailuresOf(g) = {}
        /\ FailuresOf(f) # {}

\* the summary comment of the pull request holds the ids of the block that
\* the run found, and the head sha
HoldsReviewedIds(comment) ==
    /\ comment.block.text # ""
    /\ getReviewedCommitIds(comment.block) =
            getReviewedCommitIds(existingCommitIdsBlock) \cup {headSha}

\* C21: every summary comment that a run posts in place of the previous one
\* holds the block of reviewed commit ids, made of the ids persisted before
\* and the head sha, whatever the options are, review disabled included.
C21_PostedCommentKeepsIds ==
    posted > 0 => HoldsReviewedIds(summaryComment)

\* with the review enabled the posted comment holds the earlier id and the
\* head sha
C21_Witness ==
    /\ posted = 1 /\ ~options.disableReview
    /\ getReviewedCommitIds(existingCommitIdsBlock) = {NumStr(1)}
    /\ getReviewedCommitIds(summaryComment.block) = {NumStr(1), NumStr(2)}

\* C29: when review is enabled and the reviews of Phase 2 have all ended,
\* the head sha is added to the block of reviewed commit ids, and the block
\* is posted with the summary comment, whatever the reviews of the files
\* gave: failed, empty, too large for the request, or left out by the cap on
\* the number of files.
C29_HeadRecordedWhateverOutcome ==
    /\ []((runPc = "comment" /\ ~options.disableReview) =>
            summarizeComment.block = addReviewedCommitId(existingCommitIdsBlock, headSha))
    /\ []((runPc = "done" /\ ~options.disableReview) =>
            posted = 1 /\ HoldsReviewedIds(summaryComment))
    /\ [][(runPc = "comment" /\ ~options.disableReview) => runPc' = "done"]_vars

\* the run ended with the head sha posted although the review of one file
\* failed and another file was left out by the cap
C29_Witness ==
    /\ runPc = "done" /\ ~options.disableReview
    /\ headSha \in getReviewedCommitIds(summaryComment.block)
    /\ \E f \in Range(filesAndChangesReview) : FailuresOf(f) # {}
    /\ Overflow(filesAndChangesReview, options.maxFiles) # <<>>

\* the run ended with the head sha posted although the one file to review
\* was too large for a request
C29_WitnessDeferred ==
    /\ runPc = "done" /\ ~options.disableReview
    /\ headSha \in getReviewedCommitIds(summaryComment.block)
    /\ \E k \in 1..Len(reviewsSkipped) : reviewsSkipped[k][2] = "diff too large"

\* ---------------------------------------------------- properties of splitPatch
\* the lines of the text that match the header pattern
HeaderLines(p) == {i \in 1..Len(p) : HeaderMatch(p[i])}

\* the k-th of them
NthHeader(p, k) ==
    CHOOSE i \in HeaderLines(p) : Cardinality({j \in HeaderLines(p) : j <= i}) = k

\* the concatenation of two strings kept as sequences of lines: the last
\* line of the first and the first line of the second become one line
StrConcat(x, y) ==
    SubSeq(x, 1, Len(x) - 1) \o <<x[Len(x)] \o y[1]>> \o Tail(y)

RECURSIVE JoinAll(_)
\* the concatenation of a sequence of strings, the empty string for none
JoinAll(hs) ==
    IF hs = <<>> THEN << <<>> >> ELSE StrConcat(hs[1], JoinAll(Tail(hs)))

\* C26: splitPatch returns, in order, one hunk per line that matches the
\* header pattern; a hunk begins at its header and ends just before the next
\* header or at the end of the text, so the hunks concatenated are the text
\* from the first header on, and the text before it is dropped; a null diff
\* and a diff without a header give no hunk; a header without body gives a
\* hunk with an empty body, and every hunk of the split has a header, so
\* that patchStartEndLine and parsePatch give a result for each of them.
C26_SplitAtHeaders ==
    splitPc \in {"split", "built"} =>
        LET p == filePatch.text
            H == HeaderLines(p)
            n == Cardinality(H)
        IN  IF filePatch.isNull \/ H = {}
            THEN hunkTexts = <<>> /\ (splitPc = "built" => patchUnits = <<>>)
            ELSE /\ Len(hunkTexts) = n
                 /\ \A k \in 1..n :
                        LET from == NthHeader(p, k)
                        IN  /\ hunkTexts[k] =
                                   IF k < n
                                   THEN SubSeq(p, from, NthHeader(p, k + 1) - 1) \o << <<>> >>
                                   ELSE SubSeq(p, from, Len(p))
                            /\ HeaderMatch(hunkTexts[k][1])
                            /\ \A j \in 2..Len(hunkTexts[k]) : ~HeaderMatch(hunkTexts[k][j])
                            /\ hasHeader(hunkTexts[k])
                 /\ JoinAll(hunkTexts) = SubSeq(p, NthHeader(p, 1), Len(p))
                 /\ splitPc = "built" =>
                        /\ Len(patchUnits) = n
                        /\ \A k \in 1..n :
                              bodyLines(hunkTexts[k]) = <<>> =>
                                  patchUnits[k].hunks = [oldHunk |-> <<>>, newHunk |-> <<>>]

\* a text of a line before the first header, a header without body and a
\* header with one added line: two hunks, the first with an empty body
C26_Witness ==
    /\ splitPc = "built"
    /\ ~filePatch.isNull /\ Len(filePatch.text) = 4
    /\ HeaderLines(filePatch.text) = {2, 3}
    /\ Len(hunkTexts) = 2 /\ Len(patchUnits) = 2
    /\ bodyLines(hunkTexts[1]) = <<>>
    /\ bodyLines(hunkTexts[2]) = << <<"+", "x">> >>

\* C22: startLine <= endLine holds for every patch built from the header of
\* a hunk, whatever the numbers of the header are, a new length of 0
\* included (the ranges of the reviews that parseReview returns are taken
\* from these patches or lie within one of them).
C22_StartNotAfterEnd ==
    \A k \in 1..Len(patchUnits) : patchUnits[k].startLine <= patchUnits[k].endLine

\* ------------------------------------------------- properties of doReview
\* the range lies within the patch
WithinUnit(startLine, endLine, unit) == unit[1] <= startLine /\ endLine <= unit[2]

\* C28, as stated: every comment buffered for the file has a range that
\* lies within a patch that was packed into the request of the file, never
\* within a patch that was not packed.
C28_WithinPackedUnit ==
    \A k \in 1..Len(buffered) :
        \E i \in 1..patchesPacked : WithinUnit(buffered[k][2], buffered[k][3], patches[i])

\* C28, amended: every comment buffered for the file has a range that lies
\* within a patch of the file, packed or not: the response is parsed against
\* all patches of the file. Comments are buffered only after a request with
\* at least one packed patch, and when all patches were packed the range
\* lies within a packed patch.
C28_WithinUnitOfFile ==
    /\ \A k \in 1..Len(buffered) :
          \E i \in 1..Len(patches) : WithinUnit(buffered[k][2], buffered[k][3], patches[i])
    /\ buffered # <<>> => (reviewPc = "reviewed" /\ patchesPacked > 0)
    /\ patchesPacked = Len(patches) => C28_WithinPackedUnit

\* the first of two patches was packed, and the range of the buffered
\* comment lies within the second
C28_Witness ==
    /\ reviewPc = "reviewed"
    /\ patchesPacked = 1 /\ Len(patches) = 2
    /\ Len(buffered) = 1
    /\ WithinUnit(buffered[1][2], buffered[1][3], patches[2])

\* ------------------------------------------ properties of SimpleReview.review
\* the response holds the tag followed by the verdict
AnsweredWith(resp, verdict) ==
    /\ resp.kind = "text"
    /\ \E i \in 1..Len(resp.text) : \E j \in (i + 1)..Len(resp.text) :
            /\ resp.text[i] = "[TRIAGE]:"
            /\ resp.text[j] = verdict
            /\ \A k \in (i + 1)..(j - 1) : resp.text[k] = " "

\* the review call gave a response with a comment on a range
GaveComment(resp) ==
    /\ resp.kind = "text"
    /\ HdrIdx(preprocess(resp.text)) # {}

\* C23: every comment passed to the comment buffer is keyed by the filename
\* of the file whose hunks produced it, together with its line range; here
\* for the review per hunk of SimpleReview.
C23_KeyedByFilename ==
    \A k \in 1..Len(buffered) :
        /\ buffered[k][1] = filename
        /\ \E i \in 1..Len(simplePatches) :
                WithinUnit(buffered[k][2], buffered[k][3], simplePatches[i])

\* C30: in the review per hunk a comment is buffered for a hunk only after
\* the triage call answered NEEDS_REVIEW, then the review call returned a
\* parsed comment, then the validity call answered VALID; an exception, an
\* empty response or a response without the tag or range in one of the three
\* steps ends the hunk without a comment; at most one comment is buffered per
\* hunk; the hunks of the file are processed one after the other, all of
\* them.
C30_BufferedAfterThreeChecks ==
    /\ [](simplePc \in {"review", "validity", "reflect"} =>
            /\ AnsweredWith(triageResponse, "NEEDS_REVIEW")
            /\ triageResponse.text # <<>>)
    /\ [](simplePc \in {"validity", "reflect"} =>
            /\ GaveComment(reviewResponse)
            /\ Len(reviewResult) = 1)
    /\ [](simplePc = "reflect" => AnsweredWith(validityResponse, "VALID"))
    /\ [](simplePc = "triage" => triageResponse.kind = "none")
    /\ [](simplePc \in {"triage", "review"} => reviewResponse.kind = "none")
    /\ [](simplePc \in {"triage", "review", "validity"} => validityResponse.kind = "none")
    /\ [][buffered' # buffered =>
            /\ simplePc = "reflect"
            /\ buffered' = Append(buffered, <<buffered'[Len(buffered')][1],
                                              reviewResult[1].startLine,
                                              reviewResult[1].endLine>>)
            /\ WithinUnit(reviewResult[1].startLine, reviewResult[1].endLine,
                          simplePatches[hunkIndex])]_vars
    /\ [](\A i \in 1..Len(simplePatches) :
            Cardinality({k \in 1..Len(buffered) :
                WithinUnit(buffered[k][2], buffered[k][3], simplePatches[i])}) <= 1)
    /\ [][hunkIndex' # hunkIndex => hunkIndex' = hunkIndex + 1]_vars
    /\ [](simplePc = "done" <=> hunkIndex > Len(simplePatches))
    /\ [](simplePc # "done" => ENABLED NextSimple)

\* the first hunk gave a comment, the second ended without one, and the
\* third has passed the three checks
C30_Witness ==
    /\ Len(simplePatches) = 3 /\ hunkIndex = 3
    /\ simplePc = "reflect"
    /\ Len(buffered) = 1
    /\ WithinUnit(buffered[1][2], buffered[1][3], simplePatches[1])
    /\ AnsweredWith(triageResponse, "NEEDS_REVIEW")
    /\ GaveComment(reviewResponse)
    /\ AnsweredWith(validityResponse, "VALID")

\* ------------------------------------- properties of codeReview: merging
\* the place of the file in filesAndChanges, the input order of the tasks
InputPos(f) == CHOOSE k \in 1..Len(filesAndChanges) : filesAndChanges[k] = f

\* the sequence of filenames follows the input order, without repetition
InInputOrder(names) ==
    /\ \A k \in 1..Len(names) : names[k] \in Range(filesAndChanges)
    /\ \A i, j \in 1..Len(names) : i < j => InputPos(names[i]) < InputPos(names[j])

\* C24: the raw summary given to the rollup calls and the files selected for
\* Phase 2 are the same for every completion order of the summarization
\* tasks: the results are merged in the input order of the files, each with
\* the result of its own response, and a file is selected for Phase 2 by the
\* entry under its own filename.
C24_MergedInInputOrder ==
    /\ InInputOrder([k \in 1..Len(summaries) |-> summaries[k][1]])
    /\ runPc \in RollupPcs =>
            \A f \in Names :
                /\ InSummaries(f) <=> (f \in SummaryDispatched /\ UsableSummary(f))
                /\ ApprovedInSummaries(f) <=>
                        /\ f \in SummaryDispatched
                        /\ summaryResp[f] = "APPROVED"
                        /\ options.reviewSimpleChanges = FALSE
    /\ (runPc = "summarize batch" /\ batchStart = 0) =>
            rawSummary = [k \in 1..Len(summaries) |-> <<"file", summaries[k][1]>>]
    /\ (runPc \in {"reviews", "comment", "done"} /\ ~options.disableReview) =>
            /\ InInputOrder(filesAndChangesReview)
            /\ \A f \in Range(filesAndChanges) :
                    f \in Range(filesAndChangesReview) <=> ~ApprovedInSummaries(f)

\* the two summarization tasks run at the same time
C24_WitnessConcurrent ==
    /\ runPc = "summaries"
    /\ \A f \in Names : summaryTask[f] = "chat"

\* of two files the first has no summary and the second was approved: the
\* first is selected for Phase 2, the second is not
C24_Witness ==
    /\ runPc = "reviews"
    /\ filesAndChanges = <<1, 2>>
    /\ summaries = << <<2, FALSE>> >>
    /\ filesAndChangesReview = <<1>>

====
